---- MODULE Spec2Model ----
(***************************************************************************)
(* Trafikinfo SE: the update coordinator of the integration                *)
(* (custom_components/trafikinfo_se/coordinator.py) as a state machine.    *)
(*                                                                         *)
(* Conventions of the model                                                *)
(*  - An optional value (Python's  X | None) is a sequence of length at    *)
(*    most one: None is <<>>, a present value v is <<v>>.                  *)
(*  - A text (Python str) is a sequence of symbols; a symbol is an         *)
(*    indivisible piece of text, usually one character ("a", " ", "1").    *)
(*  - A datetime is a record [t, aware]: the instant and whether the       *)
(*    value carries a UTC offset (tzinfo).                                 *)
(*  - Distances are counted in tenths of a kilometre and coordinates in    *)
(*    arcs of a tenth of a kilometre.                                      *)
(***************************************************************************)
EXTENDS Integers, Sequences, FiniteSets, TLC

None == <<>>

Some(v) == <<v>>

IsNone(o) == o = <<>>

Val(o) == o[1]

Min2(a, b) == IF a <= b THEN a ELSE b

Max2(a, b) == IF a >= b THEN a ELSE b

Abs(a) == IF a < 0 THEN 0 - a ELSE a

(***************************************************************************)
(* Text                                                                    *)
(***************************************************************************)

\* The letters of the model.
Uppers ==
  <<"A", "B", "C", "D", "E", "F", "G", "H", "I", "J", "K", "L", "M", "N",
    "O", "P", "Q", "R", "S", "T", "U", "V", "W", "X", "Y", "Z">>

Lowers ==
  <<"a", "b", "c", "d", "e", "f", "g", "h", "i", "j", "k", "l", "m", "n",
    "o", "p", "q", "r", "s", "t", "u", "v", "w", "x", "y", "z">>

Digits == <<"0", "1", "2", "3", "4", "5", "6", "7", "8", "9">>

\* The symbols of the model in code-point order (Python compares str by
\* code point).
CodeOrder ==
  <<" ", "(", ")", "+", ",", "-">> \o Digits \o <<";">> \o Uppers \o <<"_">>
    \o Lowers \o <<"Ä", "ä">>

Ord(c) == CHOOSE i \in 1..Len(CodeOrder) : CodeOrder[i] = c

IsDigit(c) == \E i \in 1..10 : Digits[i] = c

DigitVal(c) == (CHOOSE i \in 1..10 : Digits[i] = c) - 1

IsSpace(c) == c = " "

\* str.lower() on one symbol.
LowerSym(c) ==
  IF \E i \in 1..26 : Uppers[i] = c
  THEN Lowers[CHOOSE i \in 1..26 : Uppers[i] = c]
  ELSE IF c = "Ä" THEN "ä" ELSE c

\* str.upper() on one symbol.
UpperSym(c) ==
  IF \E i \in 1..26 : Lowers[i] = c
  THEN Uppers[CHOOSE i \in 1..26 : Lowers[i] = c]
  ELSE IF c = "ä" THEN "Ä" ELSE c

Lower(s) == [i \in 1..Len(s) |-> LowerSym(s[i])]

Upper(s) == [i \in 1..Len(s) |-> UpperSym(s[i])]

\* str.strip(): the text without its leading and trailing whitespace.
StrStrip(s) ==
  LET ink == {i \in 1..Len(s) : ~IsSpace(s[i])}
  IN  IF ink = {} THEN <<>>
      ELSE LET lo == CHOOSE i \in ink : \A j \in ink : i <= j
               hi == CHOOSE i \in ink : \A j \in (i + 1)..Len(s) : IsSpace(s[j])
           IN  SubSeq(s, lo, hi)

\* needle in hay (substring test).
Contains(hay, needle) ==
  \E i \in 0..(Len(hay) - Len(needle)) :
     \A j \in 1..Len(needle) : hay[i + j] = needle[j]

StartsWith(s, p) ==
  /\ Len(p) <= Len(s)
  /\ \A j \in 1..Len(p) : s[j] = p[j]

EndsWith(s, p) ==
  /\ Len(p) <= Len(s)
  /\ \A j \in 1..Len(p) : s[Len(s) - Len(p) + j] = p[j]

\* a < b for str: lexicographic by code point, a proper prefix first.
StrLess(a, b) ==
  \E i \in 1..(Min2(Len(a), Len(b)) + 1) :
     /\ \A j \in 1..(i - 1) : a[j] = b[j]
     /\ \/ i = Len(a) + 1 /\ i <= Len(b)
        \/ i <= Len(a) /\ i <= Len(b) /\ Ord(a[i]) < Ord(b[i])

(***************************************************************************)
(* Scalar converters (coordinator.py, _strip/_as_bool/_as_int/_as_dt)      *)
(***************************************************************************)

\* _strip: None for None, else the stripped text, None when that is empty.
Strip(s) ==
  IF IsNone(s) THEN None
  ELSE LET s2 == StrStrip(Val(s)) IN IF s2 # <<>> THEN Some(s2) ELSE None

\* _as_bool: True/False for the known tokens (any case), None otherwise.
AsBool(v) ==
  LET s == Strip(v) IN
  IF IsNone(s) THEN None
  ELSE IF Lower(Val(s)) \in {<<"t", "r", "u", "e">>, <<"1">>, <<"y", "e", "s">>}
       THEN Some(TRUE)
  ELSE IF Lower(Val(s)) \in {<<"f", "a", "l", "s", "e">>, <<"0">>, <<"n", "o">>}
       THEN Some(FALSE)
  ELSE None

RECURSIVE DigitsValue(_)
DigitsValue(ds) ==
  IF ds = <<>> THEN 0
  ELSE 10 * DigitsValue(SubSeq(ds, 1, Len(ds) - 1)) + DigitVal(ds[Len(ds)])

\* int(text) for an already stripped text: an optional sign and decimal
\* digits; <<>> stands for the ValueError.
IntOf(s) ==
  LET signed == s # <<>> /\ s[1] \in {"+", "-"}
      ds == IF signed THEN Tail(s) ELSE s
  IN  IF ds # <<>> /\ \A i \in 1..Len(ds) : IsDigit(ds[i])
      THEN Some(IF signed /\ s[1] = "-" THEN 0 - DigitsValue(ds) ELSE DigitsValue(ds))
      ELSE None

\* _as_int: None for None, empty or non-numeric text.
AsInt(v) ==
  LET s == Strip(v) IN IF IsNone(s) THEN None ELSE IntOf(Val(s))

\* str(n) for an integer.
RECURSIVE NatToStr(_)
NatToStr(n) ==
  IF n < 10 THEN <<Digits[n + 1]>>
  ELSE NatToStr(n \div 10) \o <<Digits[(n % 10) + 1]>>

IntToStr(n) == IF n < 0 THEN <<"-">> \o NatToStr(0 - n) ELSE NatToStr(n)

\* dt_util.parse_datetime.  The model writes a timestamp as "T", the digits
\* of the instant and, when the text carries a UTC offset, "Z"; any other
\* text is unparsable and yields None.  A text without offset yields a
\* naive datetime (aware = FALSE).
ParseDatetime(s) ==
  LET aware == Len(s) >= 1 /\ s[Len(s)] = "Z"
      ds == SubSeq(s, 2, IF aware THEN Len(s) - 1 ELSE Len(s))
  IN  IF /\ Len(s) >= 2
         /\ s[1] = "T"
         /\ ds # <<>>
         /\ \A i \in 1..Len(ds) : IsDigit(ds[i])
      THEN Some([t |-> DigitsValue(ds), aware |-> aware])
      ELSE None

\* _as_dt
AsDt(v) ==
  LET s == Strip(v) IN IF IsNone(s) THEN None ELSE ParseDatetime(Val(s))

(***************************************************************************)
(* XML element trees (xml.etree.ElementTree as the parser uses it)         *)
(* An element is [tag, text, attrib, children]: the local tag name (every  *)
(* lookup of the parser uses the {*} namespace wildcard), the optional     *)
(* text, the optional value of the "datetime" attribute, the children.     *)
(***************************************************************************)

Elem(tag, children) ==
  [tag |-> tag, text |-> None, attrib |-> None, children |-> children]

Leaf(tag, text) ==
  [tag |-> tag, text |-> Some(text), attrib |-> None, children |-> <<>>]

Empty(tag) == Elem(tag, <<>>)

RECURSIVE Flatten(_)
Flatten(ss) ==
  IF ss = <<>> THEN <<>>
  ELSE IF Len(ss) = 1 THEN ss[1]
  ELSE LET half == Len(ss) \div 2
       IN  Flatten(SubSeq(ss, 1, half)) \o Flatten(SubSeq(ss, half + 1, Len(ss)))

\* The elements below e, in document order (e itself is not one of them).
RECURSIVE Desc(_)
Desc(e) ==
  Flatten([i \in 1..Len(e.children) |-> <<e.children[i]>> \o Desc(e.children[i])])

HasTag(es, tag) == SelectSeq(es, LAMBDA x : x.tag = tag)

\* elem.findall("./{*}tag")
FindAll(elem, child_tag) == HasTag(elem.children, child_tag)

\* elem.findall(".//{*}tag"), given the elements below elem.
FindAllDeep(below, tag) == HasTag(below, tag)

\* elem.iterfind(".//{*}a/{*}b"), given the elements below elem.
IterDeepChild(below, a, b) ==
  LET as == HasTag(below, a)
  IN  Flatten([i \in 1..Len(as) |-> FindAll(as[i], b)])

\* elem.iterfind(".//{*}a//{*}b"), given the elements below elem.
IterDeepDeep(below, a, b) ==
  LET as == HasTag(below, a)
  IN  Flatten([i \in 1..Len(as) |-> HasTag(Desc(as[i]), b)])

\* Element.findtext over the matches of a path: None without a match, else
\* the text of the first match, the empty text when that element has none.
FirstText(matches) ==
  IF matches = <<>> THEN None
  ELSE IF IsNone(matches[1].text) THEN Some(<<>>) ELSE matches[1].text

\* _findtext(elem, "./tag"): the text of the first child with that tag; None
\* when there is no such child or it has no text.
FindText(elem, tag) ==
  LET cs == FindAll(elem, tag) IN IF cs = <<>> THEN None ELSE cs[1].text

\* Python truthiness of an optional text.
Truthy(o) == ~IsNone(o) /\ Val(o) # <<>>

(***************************************************************************)
(* _parse_response                                                         *)
(***************************************************************************)

\* datetime.min.replace(tzinfo=UTC): the instant 0 of the model.
DatetimeMin == [t |-> 0, aware |-> TRUE]

\* The outcome of a call: a returned value or a raised exception.
Return(v) == [raised |-> FALSE, type |-> "", msg |-> <<>>, value |-> Some(v)]

Raise(type, msg) == [raised |-> TRUE, type |-> type, msg |-> msg, value |-> None]

W_authentication ==
  <<"a", "u", "t", "h", "e", "n", "t", "i", "c", "a", "t", "i", "o", "n">>

W_invalid_key == <<"i", "n", "v", "a", "l", "i", "d", " ", "k", "e", "y">>

\* The county numbers of a deviation: the CountyNo children that convert.
CountyNos(dev) ==
  LET cs == FindAll(dev, "CountyNo")
      ok == SelectSeq(cs, LAMBDA c : ~IsNone(AsInt(c.text)))
  IN  [i \in 1..Len(ok) |-> Val(AsInt(ok[i].text))]

\* TrafikinfoEvent(...) for one Deviation of one Situation.  The record
\* carries the fields the filters, the sorter and the icon cache read and
\* one field of every converter; the remaining fields of the dataclass are
\* further _strip/_as_int/_as_bool conversions of one child each.
MakeEvent(situation, dev) ==
  [situation_id |-> Strip(FindText(situation, "Id")),
   deviation_id |-> Strip(FindText(dev, "Id")),
   icon_id |-> Strip(FindText(dev, "IconId")),
   message_type |-> Strip(FindText(dev, "MessageType")),
   severity_code |-> AsInt(FindText(dev, "SeverityCode")),
   road_number |-> Strip(FindText(dev, "RoadNumber")),
   road_name |-> Strip(FindText(dev, "RoadName")),
   county_no |-> CountyNos(dev),
   start_time |-> AsDt(FindText(dev, "StartTime")),
   end_time |-> AsDt(FindText(dev, "EndTime")),
   suspended |-> AsBool(FindText(dev, "Suspended")),
   safety_related_message |-> AsBool(FindText(dev, "SafetyRelatedMessage")),
   geometry_wgs84 |-> Strip(FirstText(IterDeepDeep(Desc(dev), "Geometry", "WGS84"))),
   publication_time |-> AsDt(FindText(situation, "PublicationTime"))]

\* One pass of the inner loop: "skip" (continue), "raise" (end_time < now
\* compares a naive datetime with the aware now: TypeError) or "event".
DeviationStep(situation, dev, now) ==
  LET suspended == AsBool(FindText(dev, "Suspended"))
      end_time == AsDt(FindText(dev, "EndTime"))
  IN  IF suspended = Some(TRUE) THEN [kind |-> "skip", event |-> None]
      ELSE IF ~IsNone(end_time) /\ ~Val(end_time).aware
           THEN [kind |-> "raise", event |-> None]
      ELSE IF ~IsNone(end_time) /\ Val(end_time).t < now
           THEN [kind |-> "skip", event |-> None]
      ELSE [kind |-> "event", event |-> Some(MakeEvent(situation, dev))]

\* One pass of the outer loop: the steps of the Situation's deviations, none
\* for a Situation whose Deleted flag is true.
SituationSteps(situation, now) ==
  IF AsBool(FindText(situation, "Deleted")) = Some(TRUE) THEN <<>>
  ELSE LET devs == FindAll(situation, "Deviation")
       IN  [i \in 1..Len(devs) |-> DeviationStep(situation, devs[i], now)]

\* _sort_key
SortKey(e) ==
  [pub |-> IF IsNone(e.publication_time) THEN DatetimeMin ELSE Val(e.publication_time),
   sid |-> IF IsNone(e.situation_id) THEN <<>> ELSE Val(e.situation_id),
   did |-> IF IsNone(e.deviation_id) THEN <<>> ELSE Val(e.deviation_id)]

\* A comparison of keys that looks at the publication time alone.
KeyLessByTimeOnly(k1, k2) == k1.pub.t < k2.pub.t

\* k1 < k2 for two keys (tuples compare element by element).
KeyLess(k1, k2) ==
  \/ k1.pub.t < k2.pub.t
  \/ k1.pub.t = k2.pub.t /\ StrLess(k1.sid, k2.sid)
  \/ k1.pub.t = k2.pub.t /\ k1.sid = k2.sid /\ StrLess(k1.did, k2.did)

\* Comparing the keys of a list raises TypeError when a naive and an aware
\* publication time (or the aware default) meet: any sort of two or more
\* elements compares across the two groups.
SortRaises(events) ==
  /\ Len(events) >= 2
  /\ \E i, j \in 1..Len(events) :
        SortKey(events[i]).pub.aware # SortKey(events[j]).pub.aware

\* events.sort(key=_sort_key, reverse=True): descending, and stable (equal
\* keys keep their original order).
\* The element at place p is the one that has p - 1 elements before it: those
\* of a greater key, and those of an equal key that came earlier in the list.
SortDesc(events) ==
  LET n == Len(events)
      keys == SubSeq([i \in 1..n |-> SortKey(events[i])], 1, n)
      before == SubSeq([i \in 1..n |->
                          Cardinality({j \in 1..n :
                                         \/ KeyLess(keys[i], keys[j])
                                         \/ j < i /\ ~KeyLess(keys[j], keys[i])})],
                       1, n)
  IN  [p \in 1..n |-> events[CHOOSE i \in 1..n : before[i] = p - 1]]

SortEventsByKey(events) == SortDesc(events)

\* TrafikinfoData
TrafikinfoData(events, last_modified, last_change_id, sse_url) ==
  [events |-> events, last_modified |-> last_modified,
   last_change_id |-> last_change_id, sse_url |-> sse_url]

\* root.findtext(".//{*}ERROR/{*}MESSAGE"), given the elements below root.
ErrMsg(below) == FirstText(IterDeepChild(below, "ERROR", "MESSAGE"))

\* The LASTMODIFIED datetime attribute, given the elements below root.
LastModified(below) ==
  LET m == IterDeepChild(below, "INFO", "LASTMODIFIED")
  IN  IF m = <<>> THEN None
      ELSE IF Truthy(m[1].attrib) THEN ParseDatetime(Val(m[1].attrib)) ELSE None

\* _parse_response(xml_text) with the value utcnow() takes during the call.
\* xml_text is [wellformed, root]: whether ET.fromstring accepts the text and
\* the tree it then returns.
ParseResponse(xml_text, now) ==
  IF ~xml_text.wellformed
  THEN Raise("TrafikinfoParseError",
             <<"Invalid XML from Trafikverket: ", "unclosed token: line 1, column 0">>)
  ELSE
  LET below == Desc(xml_text.root)
      err_msg == ErrMsg(below)
      sits == FindAllDeep(below, "Situation")
      steps == Flatten([i \in 1..Len(sits) |-> SituationSteps(sits[i], now)])
      found == SelectSeq(steps, LAMBDA st : st.kind = "event")
      events == [i \in 1..Len(found) |-> Val(found[i].event)]
  IN  IF Truthy(err_msg)
      THEN IF \/ Contains(Lower(Val(err_msg)), W_authentication)
              \/ Contains(Lower(Val(err_msg)), W_invalid_key)
           THEN Raise("TrafikinfoAuthenticationError",
                      <<"Authentication failed: ">> \o StrStrip(Val(err_msg)))
           ELSE Raise("TrafikinfoAPIError",
                      <<"Trafikverket API error: ">> \o StrStrip(Val(err_msg)))
      ELSE IF \E i \in 1..Len(steps) : steps[i].kind = "raise"
           THEN Raise("TypeError", <<"can't compare offset-naive and offset-aware datetimes">>)
      ELSE IF SortRaises(events)
           THEN Raise("TypeError", <<"can't compare offset-naive and offset-aware datetimes">>)
      ELSE Return(TrafikinfoData(
                    SortEventsByKey(events),
                    LastModified(below),
                    Strip(FirstText(IterDeepChild(below, "INFO", "LASTCHANGEID"))),
                    Strip(FirstText(IterDeepChild(below, "INFO", "SSEURL")))))

(***************************************************************************)
(* Geometry                                                                *)
(***************************************************************************)

\* _WKT_NUMBER_RE.findall(s): the numeric literals of the text in order, a
\* run of digits with the sign that precedes it (the texts of the model
\* hold no decimal point).
WktNumbers(s) ==
  LET starts == SelectSeq([i \in 1..Len(s) |-> i],
                          LAMBDA i : IsDigit(s[i]) /\ (i = 1 \/ ~IsDigit(s[i - 1])))
      stop(i) == CHOOSE j \in i..Len(s) :
                    /\ \A m \in i..j : IsDigit(s[m])
                    /\ (j = Len(s) \/ ~IsDigit(s[j + 1]))
      num(i) == IF i > 1 /\ s[i - 1] = "-"
                THEN 0 - DigitsValue(SubSeq(s, i, stop(i)))
                ELSE DigitsValue(SubSeq(s, i, stop(i)))
  IN  [k \in 1..Len(starts) |-> num(starts[k])]

\* s.split("(", 1)[0].upper()
WktHeader(s) ==
  LET opens == {i \in 1..Len(s) : s[i] = "("}
  IN  IF opens = {} THEN Upper(s)
      ELSE Upper(SubSeq(s, 1, (CHOOSE i \in opens : \A j \in opens : i <= j) - 1))

\* _wkt_points: the <<lon, lat>> points of a WKT text, none for None, an
\* empty text or a text with fewer than two numbers; a Z component is dropped.
WktPoints(wkt) ==
  IF IsNone(wkt) THEN <<>>
  ELSE
  LET s == StrStrip(Val(wkt))
      header == WktHeader(s)
      dim == IF Contains(header, <<" ", "Z">>) \/ EndsWith(header, <<"Z">>) THEN 3 ELSE 2
      floats == WktNumbers(s)
      step == IF dim = 3 THEN 3 ELSE 2
  IN  IF s = <<>> \/ Len(floats) < 2 THEN <<>>
      ELSE [k \in 1..(((Len(floats) - 2) \div step) + 1) |->
              <<floats[(k - 1) * step + 1], floats[(k - 1) * step + 2]>>]

\* _haversine_km.  Every point and every reference point of the model lies
\* on one meridian (dlon = 0), where a = sin(dlat/2)^2 and the distance is
\* r * |dlat|: the difference of the latitudes counted in tenths of a km.
HaversineKm(lon1, lat1, lon2, lat2) == Abs(lat2 - lat1)

\* pts[:200]
PointCap == 200

\* max(0.1, ...) of _in_radius, in tenths of a kilometre.
MinRadius == 1

\* A geometry walked to its end.
Uncapped(pts) == pts

Capped(pts) == SubSeq(pts, 1, Min2(PointCap, Len(pts)))

(***************************************************************************)
(* Event Filter Engine                                                     *)
(***************************************************************************)

W_viktig ==
  <<"V", "i", "k", "t", "i", "g", " ", "t", "r", "a", "f", "i", "k",
    "i", "n", "f", "o", "r", "m", "a", "t", "i", "o", "n">>

\* COUNTY_ALL
COUNTY_ALL == <<"a", "l", "l">>

\* _is_important_without_geo
IsImportantWithoutGeo(event) ==
  \/ event.safety_related_message = Some(TRUE)
  \/ event.message_type = Some(W_viktig)

\* _in_radius
InRadius(self, event) ==
  IF ~Truthy(event.geometry_wgs84) THEN IsImportantWithoutGeo(event)
  ELSE
  LET pts == WktPoints(event.geometry_wgs84)
      radius == Max2(MinRadius, self.radius_km)
      near == Capped(pts)
  IN  IF pts = <<>> THEN FALSE
      ELSE \E i \in 1..Len(near) :
              HaversineKm(self.longitude, self.latitude, near[i][1], near[i][2]) <= radius

\* A region test that never falls back on the importance of the event.
InCountiesWithoutFallback(self, event) ==
  IF COUNTY_ALL \in self.counties THEN TRUE
  ELSE \E i \in 1..Len(event.county_no) : IntToStr(event.county_no[i]) \in self.counties

\* A region test that looks at the first county code of the event alone.
InCountiesByFirstCode(self, event) ==
  IF COUNTY_ALL \in self.counties THEN TRUE
  ELSE IF self.counties = {} THEN FALSE
  ELSE IF event.county_no = <<>> THEN IsImportantWithoutGeo(event)
  ELSE IntToStr(event.county_no[1]) \in self.counties

\* _in_counties
InCounties(self, event) ==
  IF COUNTY_ALL \in self.counties THEN TRUE
  ELSE IF self.counties = {} THEN FALSE
  ELSE IF event.county_no = <<>> THEN IsImportantWithoutGeo(event)
  ELSE \E i \in 1..Len(event.county_no) : IntToStr(event.county_no[i]) \in self.counties

\* _include_event
IncludeEvent(self, event) ==
  IF self.filter_mode = "county" THEN InCounties(self, event)
  ELSE InRadius(self, event)

W_vag_uml == <<"v", "ä", "g">>

W_vag == <<"v", "a", "g">>

W_road == <<"r", "o", "a", "d">>

\* re.sub(r"^(väg|vag|road)\s+", "", s)
StripRoadPrefix(s) ==
  LET hit(p) == StartsWith(s, p) /\ Len(s) > Len(p) /\ IsSpace(s[Len(p) + 1])
      cut(p) == LET rest == SubSeq(s, Len(p) + 1, Len(s))
                    ink == {i \in 1..Len(rest) : ~IsSpace(rest[i])}
                IN  IF ink = {} THEN <<>>
                    ELSE SubSeq(rest, CHOOSE i \in ink : \A j \in ink : i <= j, Len(rest))
  IN  IF hit(W_vag_uml) THEN cut(W_vag_uml)
      ELSE IF hit(W_vag) THEN cut(W_vag)
      ELSE IF hit(W_road) THEN cut(W_road)
      ELSE s

\* re.sub(r"\s+", " ", s): every run of whitespace becomes one space.
RECURSIVE CollapseSpaces(_)
CollapseSpaces(s) ==
  IF Len(s) < 2 THEN s
  ELSE IF IsSpace(s[1]) /\ IsSpace(s[2]) THEN CollapseSpaces(Tail(s))
  ELSE <<s[1]>> \o CollapseSpaces(Tail(s))

\* _normalize_road_filter_token
NormalizeRoadFilterToken(value) ==
  LET s == Lower(StrStrip(value))
  IN  IF s = <<>> THEN <<>>
      ELSE StrStrip(CollapseSpaces(StripRoadPrefix(s)))

OrEmpty(o) == IF IsNone(o) THEN <<>> ELSE Val(o)

\* A match on the road number alone.
RoadFilterMatchNumberOnly(event, tokens) ==
  \E i \in 1..Len(tokens) : tokens[i] = Lower(StrStrip(OrEmpty(event.road_number)))

\* _road_filter_match
RoadFilterMatch(event, tokens) ==
  IF tokens = <<>> THEN TRUE
  ELSE
  LET road_text == Lower(OrEmpty(event.road_name) \o <<" ">> \o OrEmpty(event.road_number))
      road_no == Lower(StrStrip(OrEmpty(event.road_number)))
  IN  \E i \in 1..Len(tokens) :
         /\ tokens[i] # <<>>
         /\ \/ road_no # <<>> /\ tokens[i] = road_no
            \/ Contains(road_text, tokens[i])

\* _apply_road_filter
ApplyRoadFilter(self, events) ==
  IF self.filter_roads = <<>> THEN events
  ELSE
  LET all == [i \in 1..Len(self.filter_roads) |->
                NormalizeRoadFilterToken(self.filter_roads[i])]
      tokens == SelectSeq(all, LAMBDA t : t # <<>>)
  IN  IF tokens = <<>> THEN events
      ELSE SelectSeq(events,
             LAMBDA e : IsImportantWithoutGeo(e) \/ RoadFilterMatch(e, tokens))

(***************************************************************************)
(* Relevance Sorter: event_distance_km and sort_events                     *)
(***************************************************************************)

\* event_distance_km: the least distance from the sort reference to one of
\* the first 200 points, None without geometry or without a point.
EventDistanceKm(self, event) ==
  IF ~Truthy(event.geometry_wgs84) THEN None
  ELSE
  LET pts == WktPoints(event.geometry_wgs84)
      near == Capped(pts)
      ds == {HaversineKm(self.sort_longitude, self.sort_latitude, near[i][1], near[i][2]) :
               i \in 1..Len(near)}
  IN  IF pts = <<>> THEN None
      ELSE Some(CHOOSE d \in ds : \A x \in ds : d <= x)

\* The instant of datetime.timestamp() = 0 on the time scale of the model.
EpochT == 1

\* _pub_ts: the timestamp of the publication time, 0.0 without one.
PubTs(e) ==
  IF IsNone(e.publication_time) THEN 0 ELSE Val(e.publication_time).t - EpochT

\* float("inf"), the distance value of an event without distance.
DistInf == 1000000

\* _dist of the i-th event while the keys are taken in list order: the
\* entry of dist_cache under (situation_id, deviation_id), which the first
\* event of the list with these two ids has filled.
Dist(self, events, i) ==
  LET same == {j \in 1..i : /\ events[j].situation_id = events[i].situation_id
                            /\ events[j].deviation_id = events[i].deviation_id}
      first == CHOOSE j \in same : \A k \in same : j <= k
  IN  EventDistanceKm(self, events[first])

\* _k_nearest
KNearest(self, events, i) ==
  LET d == Dist(self, events, i)
  IN  <<IF IsNone(d) THEN 1 ELSE 0,
        IF IsNone(d) THEN DistInf ELSE Val(d),
        0 - PubTs(events[i]),
        OrEmpty(events[i].situation_id),
        OrEmpty(events[i].deviation_id)>>

\* _k_relevance
KRelevance(self, events, i) ==
  <<IF IsImportantWithoutGeo(events[i]) THEN 0 ELSE 1>> \o KNearest(self, events, i)

\* a < b for two keys of _k_nearest (tuples compare element by element).
NearestLess(a, b) ==
  \/ a[1] < b[1]
  \/ a[1] = b[1] /\ a[2] < b[2]
  \/ a[1] = b[1] /\ a[2] = b[2] /\ a[3] < b[3]
  \/ a[1] = b[1] /\ a[2] = b[2] /\ a[3] = b[3] /\ StrLess(a[4], b[4])
  \/ a[1] = b[1] /\ a[2] = b[2] /\ a[3] = b[3] /\ a[4] = b[4] /\ StrLess(a[5], b[5])

\* a < b for two keys of _k_relevance.
RelevanceLess(a, b) ==
  \/ a[1] < b[1]
  \/ a[1] = b[1] /\ NearestLess(Tail(a), Tail(b))

\* sorted(events, key=..., reverse=False) for the keys of the events in list
\* order: ascending, and stable (events of equal keys keep their order).
SortedAscending(events, keys, Less(_, _)) ==
  LET n == Len(events)
      pos(i) == Cardinality({j \in 1..n : Less(keys[j], keys[i])})
                  + Cardinality({j \in 1..(i - 1) : keys[j] = keys[i]}) + 1
  IN  [p \in 1..n |-> events[CHOOSE i \in 1..n : pos(i) = p]]

\* The newest mode with the list left as it came.
SortNewestAsGiven(events) == events

\* sorted(events, key=_k_newest, reverse=True): the key and the order of the
\* default ordering of the parser.
SortNewest(events) == SortDesc(events)

\* sort_events, for a list whose keys compare without TypeError.
SortEvents(self, events) ==
  IF events = <<>> THEN <<>>
  ELSE IF self.sort_mode = "newest" THEN SortNewest(events)
  ELSE IF self.sort_mode = "nearest"
  THEN SortedAscending(events, [i \in 1..Len(events) |-> KNearest(self, events, i)],
                       NearestLess)
  ELSE SortedAscending(events, [i \in 1..Len(events) |-> KRelevance(self, events, i)],
                       RelevanceLess)

(***************************************************************************)
(* Icon Cache Manager: payload sniffing, file names, the cache directory   *)
(*                                                                         *)
(* A payload (Python bytes) is a sequence of symbols, one per byte; the    *)
(* bytes that are not printable bear a name ("x89", "CR", "LF", "x1A").    *)
(* The cache directory is a function from the paths in it to the optional  *)
(* content of the file at the path; a path is the text of its file name.   *)
(***************************************************************************)

\* b"\x89PNG\r\n\x1a\n"
PngMagic == <<"x89", "P", "N", "G", "CR", "LF", "x1A", "LF">>

\* The whitespace bytes.lstrip() removes.
IsByteSpace(c) == c \in {" ", "TAB", "LF", "VT", "FF", "CR"}

\* _looks_like_png
LooksLikePng(data) == StartsWith(data, PngMagic)

\* data[:300]
SvgHeadLen == 300

\* _looks_like_svg
LooksLikeSvg(data) ==
  LET cut == SubSeq(data, 1, Min2(SvgHeadLen, Len(data)))
      ink == {i \in 1..Len(cut) : ~IsByteSpace(cut[i])}
      head == IF ink = {} THEN <<>>
              ELSE SubSeq(cut, CHOOSE i \in ink : \A j \in ink : i <= j, Len(cut))
  IN  /\ StartsWith(head, <<"<">>)
      /\ Contains(Lower(head), <<"<", "s", "v", "g">>)

W_png == <<"p", "n", "g">>

W_svg == <<"s", "v", "g">>

\* str.isalnum() on one symbol.
IsAlnum(c) ==
  \/ \E i \in 1..26 : Uppers[i] = c \/ Lowers[i] = c
  \/ \E i \in 1..10 : Digits[i] = c
  \/ c \in {"ä", "Ä"}

\* _safe_icon_filename
SafeIconFilename(icon_id, ext) ==
  LET safe == [i \in 1..Len(icon_id) |->
                 IF IsAlnum(icon_id[i]) \/ icon_id[i] \in {"-", "_"}
                 THEN icon_id[i] ELSE "_"]
  IN  (IF safe = <<>> THEN <<"i", "c", "o", "n">> ELSE safe) \o <<".">> \o ext

\* const.ICON_CACHE_DIR
ICON_CACHE_DIR == <<"trafikinfo_se/icons">>

\* f"/local/{ICON_CACHE_DIR}/{name}"
LocalUrl(name) == <<"/local/">> \o ICON_CACHE_DIR \o <<"/">> \o name

\* path.with_suffix(path.suffix + ".tmp")
TmpPath(path) == path \o <<".tmp">>

\* The longest file name the file system of the cache directory takes
\* (NAME_MAX); stat() of a longer one fails with ENAMETOOLONG, an OSError
\* that is not a "no such file".
NameMax == 255

NameTooLong(name) == Len(name) > NameMax

\* _file_nonempty: an OSError of exists() or stat() counts as "no".
FileNonempty(fs, path) == ~NameTooLong(path) /\ fs[path] # None /\ Val(fs[path]) # <<>>

\* The icons _ensure_category_icons_cached asks for.
CategoryIcons ==
  << <<"r", "o", "a", "d", "A", "c", "c", "i", "d", "e", "n", "t">>,
     <<"t", "r", "a", "f", "f", "i", "c", "M", "e", "s", "s", "a", "g", "e">>,
     <<"e", "m", "e", "r", "g", "e", "n", "c", "y", "I", "n", "f", "o", "r", "m", "a", "t",
       "i", "o", "n">>,
     <<"t", "r", "a", "f", "f", "i", "c", "M", "e", "s", "s", "a", "g", "e", "P", "l", "a",
       "n", "n", "e", "d">> >>

\* len(unique) >= 50
IconCap == 50

\* The first IconCap distinct values of icon_ids, in order of first
\* occurrence (_ensure_icons_cached).
UniqueIcons(icon_ids) ==
  LET firsts == SelectSeq([i \in 1..Len(icon_ids) |-> i],
                          LAMBDA i : \A j \in 1..(i - 1) : icon_ids[j] # icon_ids[i])
  IN  [k \in 1..Min2(IconCap, Len(firsts)) |-> icon_ids[firsts[k]]]

\* The icons one background task asks _ensure_icon_cached for, in order
\* (_cache_icons_background).
IconQueue(icon_ids) == UniqueIcons(icon_ids) \o CategoryIcons

\* A check that trusts the declared content type alone.
AcceptedExtByContentType(resp) ==
  IF resp.status # 200 THEN None
  ELSE IF Contains(Lower(resp.ctype), W_svg) THEN Some(W_svg)
  ELSE IF Contains(Lower(resp.ctype), W_png) THEN Some(W_png)
  ELSE None

\* Whether the code takes a response as an SVG or as a PNG image: the
\* extension it stores the payload under, None for a response it skips.
AcceptedExt(resp) ==
  IF resp.status # 200 THEN None
  ELSE IF Contains(Lower(resp.ctype), W_svg) \/ LooksLikeSvg(resp.content)
  THEN (IF LooksLikeSvg(resp.content) THEN Some(W_svg) ELSE None)
  ELSE IF Contains(Lower(resp.ctype), W_png) \/ LooksLikePng(resp.content)
  THEN (IF LooksLikePng(resp.content) THEN Some(W_png) ELSE None)
  ELSE None

(***************************************************************************)
(* Configuration: the config entry and TrafikinfoCoordinator.__init__ /    *)
(* apply_options                                                           *)
(*                                                                         *)
(* A config entry is [options, data]; each is a record with one optional   *)
(* per key (None: the key is absent).  Values: api_key a text; the modes    *)
(* strings; numbers integers; filter_roads [type, str, list] with type     *)
(* "str", "list" or "other"; counties [type, list]; sort_location          *)
(* [type, latitude, longitude] with type "dict" or "other" and each        *)
(* coordinate an optional [ok, v], ok = FALSE for a value float() rejects. *)
(***************************************************************************)

\* entry.options.get(key, entry.data.get(key, default))
Opt(entry, key, default) ==
  IF ~IsNone(entry.options[key]) THEN Val(entry.options[key])
  ELSE IF ~IsNone(entry.data[key]) THEN Val(entry.data[key])
  ELSE default

\* entry.data.get(key, default)
DataGet(entry, key, default) ==
  IF ~IsNone(entry.data[key]) THEN Val(entry.data[key]) ELSE default

\* const.py defaults
DEFAULT_MAX_ITEMS == 25

DEFAULT_RADIUS_KM == 250

DEFAULT_SCAN_MINUTES == 10

DEFAULT_SORT_MODE == "relevance"

DEFAULT_FILTER_MODE == "coordinate"

SortModes == {"relevance", "nearest", "newest"}

FilterModes == {"coordinate", "county"}

\* hass.config.latitude / hass.config.longitude
HomeLatitude == 7

HomeLongitude == 0

NoRoads == [type |-> "list", str |-> <<>>, list |-> <<>>]

NoCounties == [type |-> "list", list |-> <<>>]

NoSortLocation == [type |-> "other", latitude |-> None, longitude |-> None]

\* The pieces of a text between separators (str.split on ";" and then on
\* ","), empty pieces included.
RECURSIVE SplitRoads(_)
SplitRoads(s) ==
  LET seps == {i \in 1..Len(s) : s[i] \in {";", ","}}
  IN  IF seps = {} THEN <<s>>
      ELSE LET i == CHOOSE k \in seps : \A j \in seps : k <= j
           IN  <<SubSeq(s, 1, i - 1)>> \o SplitRoads(SubSeq(s, i + 1, Len(s)))

\* The road filter of a raw option value: [str(x).strip() for x in raw if
\* str(x).strip()], a str split first; <<>> for a value of another type.
FilterRoads(raw) ==
  LET parts == IF raw.type = "str" THEN SplitRoads(raw.str)
               ELSE IF raw.type = "list" THEN raw.list
               ELSE <<>>
      kept == SelectSeq(parts, LAMBDA x : StrStrip(x) # <<>>)
  IN  [i \in 1..Len(kept) |-> StrStrip(kept[i])]

\* The sort mode: the stored value, the default for an unknown one.
SortModeOf(entry) ==
  LET m == Opt(entry, "sort_mode", DEFAULT_SORT_MODE)
  IN  IF m \in SortModes THEN m ELSE DEFAULT_SORT_MODE

\* The filter mode: the stored value, county for an earlier or unknown one.
FilterModeOf(entry) ==
  LET m == Opt(entry, "filter_mode", DEFAULT_FILTER_MODE)
  IN  IF m \in FilterModes THEN m ELSE "county"

\* The region codes the entry gives: {str(x) for x in raw if str(x).strip()}.
GivenCounties(entry) ==
  LET raw == Opt(entry, "counties", NoCounties)
  IN  IF raw.type = "list"
      THEN {raw.list[i] : i \in {j \in 1..Len(raw.list) : StrStrip(raw.list[j]) # <<>>}}
      ELSE {}

\* A region set that stays as the entry gives it, empty included.
CountiesAsGiven(entry, filter_mode) == GivenCounties(entry)

\* The region codes of the coordinator: Sweden-wide when the mode is county
\* and the entry gives none.
CountiesOf(entry, filter_mode) ==
  IF filter_mode = "county" /\ GivenCounties(entry) = {}
  THEN {COUNTY_ALL}
  ELSE GivenCounties(entry)

\* The sorting reference point <<latitude, longitude>>: the filter centre in
\* coordinate mode; in county mode the sort_location, the home location for
\* a missing key, a value that is no dict or one float() rejects.
SortReference(entry, filter_mode, latitude, longitude) ==
  IF filter_mode = "coordinate" THEN <<latitude, longitude>>
  ELSE
  LET sort_loc == Opt(entry, "sort_location", NoSortLocation)
      lat == IF IsNone(sort_loc.latitude) THEN [ok |-> TRUE, v |-> HomeLatitude]
             ELSE Val(sort_loc.latitude)
      lon == IF IsNone(sort_loc.longitude) THEN [ok |-> TRUE, v |-> HomeLongitude]
             ELSE Val(sort_loc.longitude)
  IN  IF sort_loc.type = "dict" /\ lat.ok /\ lon.ok THEN <<lat.v, lon.v>>
      ELSE <<HomeLatitude, HomeLongitude>>

\* A poll interval taken as it is stored.
UpdateIntervalAsStored(entry) == Opt(entry, "scan_interval", DEFAULT_SCAN_MINUTES)

\* timedelta(minutes=max(1, scan_minutes)), in minutes
UpdateInterval(entry) == Max2(1, Opt(entry, "scan_interval", DEFAULT_SCAN_MINUTES))

\* An API key taken as it is stored.
ApiKeyAsStored(entry) == DataGet(entry, "api_key", <<>>)

\* str(entry.data.get(CONF_API_KEY, "")).strip()
ApiKeyOf(entry) == StrStrip(DataGet(entry, "api_key", <<>>))

\* TrafikinfoCoordinator.__init__: the attributes of a new coordinator.
Construct(entry) ==
  LET filter_mode == FilterModeOf(entry)
      latitude == Opt(entry, "latitude", HomeLatitude)
      longitude == Opt(entry, "longitude", HomeLongitude)
      ref == SortReference(entry, filter_mode, latitude, longitude)
  IN  [api_key |-> ApiKeyOf(entry),
       max_items |-> Opt(entry, "max_items", DEFAULT_MAX_ITEMS),
       filter_roads |-> FilterRoads(Opt(entry, "filter_roads", NoRoads)),
       sort_mode |-> SortModeOf(entry),
       filter_mode |-> filter_mode,
       counties |-> CountiesOf(entry, filter_mode),
       latitude |-> latitude,
       longitude |-> longitude,
       sort_latitude |-> ref[1],
       sort_longitude |-> ref[2],
       radius_km |-> Opt(entry, "radius_km", DEFAULT_RADIUS_KM),
       update_interval |-> UpdateInterval(entry)]

\* An apply_options that leaves the sorting reference point alone when the
\* region mode finds no usable sort_location.
ApplyOptionsKeepingReference(self, entry) ==
  LET filter_mode == FilterModeOf(entry)
      latitude == Opt(entry, "latitude", HomeLatitude)
      longitude == Opt(entry, "longitude", HomeLongitude)
      ref == SortReference(entry, filter_mode, latitude, longitude)
      kept == filter_mode # "coordinate" /\ ref = <<HomeLatitude, HomeLongitude>>
  IN  [self EXCEPT
         !.filter_roads = FilterRoads(Opt(entry, "filter_roads", NoRoads)),
         !.sort_mode = SortModeOf(entry),
         !.filter_mode = filter_mode,
         !.counties = CountiesOf(entry, filter_mode),
         !.update_interval = UpdateInterval(entry),
         !.max_items = Opt(entry, "max_items", DEFAULT_MAX_ITEMS),
         !.latitude = latitude,
         !.longitude = longitude,
         !.radius_km = Opt(entry, "radius_km", DEFAULT_RADIUS_KM),
         !.sort_latitude = IF kept THEN @ ELSE ref[1],
         !.sort_longitude = IF kept THEN @ ELSE ref[2]]

\* apply_options: every attribute but the API key is read again.
ApplyOptionsTo(self, entry) ==
  LET filter_mode == FilterModeOf(entry)
      latitude == Opt(entry, "latitude", HomeLatitude)
      longitude == Opt(entry, "longitude", HomeLongitude)
      ref == SortReference(entry, filter_mode, latitude, longitude)
  IN  [self EXCEPT
         !.filter_roads = FilterRoads(Opt(entry, "filter_roads", NoRoads)),
         !.sort_mode = SortModeOf(entry),
         !.filter_mode = filter_mode,
         !.counties = CountiesOf(entry, filter_mode),
         !.update_interval = UpdateInterval(entry),
         !.max_items = Opt(entry, "max_items", DEFAULT_MAX_ITEMS),
         !.latitude = latitude,
         !.longitude = longitude,
         !.radius_km = Opt(entry, "radius_km", DEFAULT_RADIUS_KM),
         !.sort_latitude = ref[1],
         !.sort_longitude = ref[2]]

(***************************************************************************)
(* Inputs: feed documents and config entries                               *)
(***************************************************************************)

T_true == <<"t", "r", "u", "e">>

T_false == <<"f", "a", "l", "s", "e">>

T_163 == <<"1", "6", "3">>

T_E4 == <<"E", "4">>

\* "POINT (0 lat)"
WktPoint(lat) == <<"P", "O", "I", "N", "T", " ", "(", "0", " ">> \o IntToStr(lat) \o <<")">>

\* "POINT Z (0 lat 9)"
WktPointZ(lat) ==
  <<"P", "O", "I", "N", "T", " ", "Z", " ", "(", "0", " ">> \o IntToStr(lat)
    \o <<" ", "9", ")">>

\* "LINESTRING (0 far, 0 far, ..., 0 last)": n points at latitude far and
\* then one at latitude last.
WktLine(n, far, last) ==
  LET point == <<"0", " ">> \o IntToStr(far) \o <<",", " ">>
  IN  <<"L", "I", "N", "E", "S", "T", "R", "I", "N", "G", " ", "(">>
        \o [k \in 1..(n * Len(point)) |-> point[((k - 1) % Len(point)) + 1]]
        \o <<"0", " ">> \o IntToStr(last) \o <<")">>

OptLeaf(tag, o) == IF IsNone(o) THEN <<>> ELSE <<Leaf(tag, Val(o))>>

\* A Deviation element from a record of optional texts, one per child.
DeviationElem(d) ==
  Elem("Deviation",
       OptLeaf("Id", d.Id) \o OptLeaf("IconId", d.IconId)
         \o OptLeaf("MessageType", d.MessageType)
         \o OptLeaf("SeverityCode", d.SeverityCode)
         \o OptLeaf("RoadNumber", d.RoadNumber) \o OptLeaf("RoadName", d.RoadName)
         \o [i \in 1..Len(d.CountyNo) |-> Leaf("CountyNo", d.CountyNo[i])]
         \o OptLeaf("StartTime", d.StartTime) \o OptLeaf("EndTime", d.EndTime)
         \o OptLeaf("Suspended", d.Suspended)
         \o OptLeaf("SafetyRelatedMessage", d.SafetyRelatedMessage)
         \o (IF IsNone(d.WGS84) THEN <<>>
             ELSE <<Elem("Geometry", <<Elem("Point", <<Leaf("WGS84", Val(d.WGS84))>>)>>)>>))

\* A Situation element.
SituationElem(id, pub, deleted, devs) ==
  Elem("Situation",
       OptLeaf("Deleted", deleted) \o OptLeaf("Id", id)
         \o OptLeaf("PublicationTime", pub) \o devs)

InfoElem(modified, change_id, sse_url) ==
  Elem("INFO",
       <<[tag |-> "LASTMODIFIED", text |-> None, attrib |-> modified, children |-> <<>>]>>
         \o OptLeaf("LASTCHANGEID", change_id) \o OptLeaf("SSEURL", sse_url))

\* <RESPONSE><RESULT>...</RESULT></RESPONSE> as a response text.
ResponseDoc(children) ==
  [wellformed |-> TRUE, root |-> Elem("RESPONSE", <<Elem("RESULT", children)>>)]

\* A text ET.fromstring rejects.
MalformedDoc == [wellformed |-> FALSE, root |-> Empty("")]

ErrorElem(msg) == Elem("ERROR", <<Leaf("MESSAGE", msg)>>)

T_invalid_auth_key ==
  <<"I", "n", "v", "a", "l", "i", "d", " ">> \o W_authentication \o <<" ", "k", "e", "y">>

T_rate_limit ==
  <<"r", "a", "t", "e", " ", "l", "i", "m", "i", "t", " ",
    "e", "x", "c", "e", "e", "d", "e", "d">>

\* A deviation that is active at every instant of the model and lies at the
\* filter centre of the entries below.
BaseDev ==
  [Id |-> Some(<<"d", "1">>), IconId |-> Some(<<"i", "1">>),
   MessageType |-> Some(<<"O", "l", "y", "c", "k", "a">>),
   SeverityCode |-> Some(<<"4">>), RoadNumber |-> Some(T_163),
   RoadName |-> None, CountyNo |-> <<<<"1">>>>, StartTime |-> Some(<<"T", "1", "Z">>),
   EndTime |-> None, Suspended |-> Some(T_false),
   SafetyRelatedMessage |-> Some(T_false), WGS84 |-> Some(WktPoint(5))]

\* Deviations of the feed documents.
DevActive == BaseDev

DevSuspended ==
  [BaseDev EXCEPT !.Id = Some(<<"d", "2">>), !.IconId = Some(<<"i", "2">>),
                  !.Suspended = Some(<<" ", "T", "r", "u", "e">>)]

DevEnds3 ==
  [BaseDev EXCEPT !.Id = Some(<<"d", "3">>), !.IconId = Some(<<"i", "2">>),
                  !.EndTime = Some(<<"T", "3", "Z">>)]

DevFar ==
  [BaseDev EXCEPT !.Id = Some(<<"d", "4">>), !.IconId = None,
                  !.RoadNumber = Some(T_E4), !.CountyNo = <<<<"5">>>>,
                  !.WGS84 = Some(WktPoint(9))]

DevSafetyNoGeo ==
  [BaseDev EXCEPT !.Id = Some(<<"d", "5">>), !.RoadNumber = None,
                  !.SafetyRelatedMessage = Some(T_true), !.CountyNo = <<>>,
                  !.WGS84 = None]

DevNaiveEnd ==
  [BaseDev EXCEPT !.Id = Some(<<"d", "6">>), !.EndTime = Some(<<"T", "9">>)]

DevOddFields ==
  [BaseDev EXCEPT !.Id = Some(<<"d", "7">>), !.Suspended = Some(<<"m", "a", "y", "b", "e">>),
                  !.SeverityCode = Some(<<"x">>), !.EndTime = Some(<<"s", "o", "o", "n">>),
                  !.StartTime = Some(<<>>), !.SafetyRelatedMessage = Some(<<" ">>)]

\* Situations of the feed documents.
SitThree ==
  SituationElem(Some(<<"s", "1">>), Some(<<"T", "2", "Z">>), Some(T_false),
                <<DeviationElem(DevSuspended), DeviationElem(DevEnds3),
                  DeviationElem(DevActive)>>)

SitFar ==
  SituationElem(Some(<<"s", "2">>), Some(<<"T", "3", "Z">>), None,
                <<DeviationElem(DevFar), DeviationElem(DevSafetyNoGeo)>>)

SitDeleted ==
  SituationElem(Some(<<"s", "3">>), Some(<<"T", "3", "Z">>), Some(T_true),
                <<DeviationElem(DevActive)>>)

SitNoPub ==
  SituationElem(Some(<<"s", "0">>), None, None, <<DeviationElem(DevOddFields)>>)

SitNaivePub ==
  SituationElem(Some(<<"s", "4">>), Some(<<"T", "3">>), None, <<DeviationElem(DevActive)>>)

SitNaiveEnd ==
  SituationElem(Some(<<"s", "5">>), Some(<<"T", "1", "Z">>), None,
                <<DeviationElem(DevNaiveEnd)>>)

\* Published at the least instant there is (datetime.min, UTC).
SitMinPub ==
  SituationElem(Some(<<"r", "9">>), Some(<<"T", "0", "Z">>), None,
                <<DeviationElem([DevActive EXCEPT !.Id = Some(<<"d", "8">>)])>>)

Situations ==
  <<SitThree, SitFar, SitDeleted, SitNoPub, SitNaivePub, SitNaiveEnd, SitMinPub>>

\* The most Situation elements of a generated feed document.
MaxSituations == 2

RECURSIVE SeqsUpTo(_, _)
SeqsUpTo(S, n) ==
  IF n = 0 THEN {<<>>}
  ELSE LET shorter == SeqsUpTo(S, n - 1)
       IN  shorter \cup {Append(q, x) : q \in {r \in shorter : Len(r) = n - 1}, x \in S}

Info == InfoElem(Some(<<"T", "2", "Z">>), Some(<<"7">>), Some(<<"u">>))

\* Response texts that are no feed: error payloads below RESULT, before a
\* Situation, as the document itself, behind an ERROR with an empty
\* MESSAGE, and a text that is no XML.
OtherDocs ==
  <<ResponseDoc(<<ErrorElem(T_invalid_auth_key)>>),
    ResponseDoc(<<Info, ErrorElem(T_rate_limit), SitThree>>),
    [wellformed |-> TRUE, root |-> ErrorElem(T_invalid_auth_key)],
    [wellformed |-> TRUE, root |-> ErrorElem(T_rate_limit)],
    ResponseDoc(<<Elem("ERROR", <<Empty("MESSAGE")>>), ErrorElem(T_rate_limit)>>),
    MalformedDoc>>

\* A response body is named by [sits, other]: the feed document with the
\* Situations numbered sits when other = 0, else OtherDocs[other].
Bodies ==
  {[sits |-> q, other |-> 0] : q \in SeqsUpTo(1..Len(Situations), MaxSituations)}
    \cup {[sits |-> <<>>, other |-> k] : k \in 1..Len(OtherDocs)}

\* A feed whose one Situation has two active deviations more than the icon
\* cap, each with an icon of its own, all at the filter centre.
ManyIconsDoc ==
  ResponseDoc(<<Info,
                SituationElem(Some(<<"s", "9">>), Some(<<"T", "2", "Z">>), None,
                  [n \in 1..(IconCap + 2) |->
                     DeviationElem([BaseDev EXCEPT
                                      !.Id = Some(<<"d">> \o NatToStr(n)),
                                      !.IconId = Some(<<"i">> \o NatToStr(n))])])>>)

\* The response text of a body.
DocOf(b) ==
  IF b.other > Len(OtherDocs) THEN ManyIconsDoc
  ELSE IF b.other # 0 THEN OtherDocs[b.other]
  ELSE ResponseDoc(<<Info>> \o [i \in 1..Len(b.sits) |-> Situations[b.sits[i]]])

\* The bodies that come with a status other than 200: an error payload, a
\* feed with an active deviation, no XML.
ErrorBodies ==
  {[sits |-> <<>>, other |-> 1], [sits |-> <<1>>, other |-> 0], [sits |-> <<>>, other |-> 6]}

\* The bodies the ticks of the orchestrator are run on: every one-Situation
\* feed, the three-deviation feed beside a far and a safety-related one (in
\* both orders) and beside itself, and the texts that are no feed.
TickBodies ==
  {[sits |-> <<k>>, other |-> 0] : k \in 1..Len(Situations)}
    \cup {[sits |-> q, other |-> 0] : q \in {<<>>, <<1, 2>>, <<2, 1>>, <<1, 1>>}}
    \cup {[sits |-> <<>>, other |-> k] : k \in 1..Len(OtherDocs)}

\* The characters of a response text, one symbol per tag and per character
\* of element text.
RECURSIVE ToText(_)
ToText(elem) ==
  <<"<" , elem.tag, ">">>
    \o (IF IsNone(elem.text) THEN <<>> ELSE Val(elem.text))
    \o Flatten([i \in 1..Len(elem.children) |-> ToText(elem.children[i])])
    \o <<"</", elem.tag, ">">>

\* text[:300]
TextCap == 300

TextHead(xml_text) ==
  LET text == IF xml_text.wellformed THEN ToText(xml_text.root) ELSE <<"<", "<">>
  IN  SubSeq(text, 1, Min2(Len(text), TextCap))

\* Config entries.
NoOptions ==
  [api_key |-> None, max_items |-> None, filter_roads |-> None, sort_mode |-> None,
   filter_mode |-> None, counties |-> None, latitude |-> None, longitude |-> None,
   sort_location |-> None, radius_km |-> None, scan_interval |-> None]

BaseData ==
  [NoOptions EXCEPT !.api_key = Some(<<"k", "e", "y">>),
                    !.filter_mode = Some("coordinate"),
                    !.latitude = Some(5), !.longitude = Some(0), !.radius_km = Some(2)]

EntryCoordinate == [options |-> NoOptions, data |-> BaseData]

EntryRoads ==
  [options |-> [NoOptions EXCEPT
                  !.filter_roads =
                     Some([type |-> "str", list |-> <<>>,
                           str |-> <<"V", "ä", "g", " ", "1", "6", "3", ";", " ">>])],
   data |-> BaseData]

EntryCounty ==
  [options |-> [NoOptions EXCEPT
                  !.filter_mode = Some("county"),
                  !.counties = Some([type |-> "list", list |-> <<<<"1">>, <<" ">>>>]),
                  !.sort_mode = Some("nearest")],
   data |-> BaseData]

EntryLegacy ==
  [options |-> [NoOptions EXCEPT
                  !.filter_mode = Some("sweden"), !.sort_mode = Some("closest"),
                  !.scan_interval = Some(0)],
   data |-> BaseData]

\* The region mode with a list that holds no code.
EntryCountyBlank ==
  [options |-> [NoOptions EXCEPT
                  !.filter_mode = Some("county"),
                  !.counties = Some([type |-> "list", list |-> <<<<" ">>>>])],
   data |-> BaseData]

EntryNoKey ==
  [options |-> NoOptions, data |-> [BaseData EXCEPT !.api_key = Some(<<" ">>)]]

Entries ==
  {EntryCoordinate, EntryRoads, EntryCounty, EntryLegacy, EntryCountyBlank, EntryNoKey}

(***************************************************************************)
(* The update orchestrator: TrafikinfoCoordinator._async_update_data       *)
(***************************************************************************)

VARIABLES
  entry,      \* the config entry (options and data) as stored
  coord,      \* the attributes of the coordinator
  pc,         \* the tick: "Idle", "Fetching" (awaiting the POST), "Ready", "Failed"
  clock,      \* the latest instant utcnow() returned
  ticks,      \* ticks started so far
  tick,       \* what the running or last tick did (see NewTick)
  result,     \* how the last tick left _async_update_data (None while it runs)
  bg_tasks,   \* the background icon tasks started, each with its queue and position
  icon_local_urls,  \* _icon_local_urls: the local reference of each icon, if any
  files       \* the icon cache directory: the content of the file at each path

vars == <<entry, coord, pc, clock, ticks, tick, result, bg_tasks, icon_local_urls, files>>

\* The most ticks of a behaviour.
MaxTicks == 2

\* The last instant of the clock.
MaxClock == 4

\* The HTTP statuses the feed answers with.
Statuses == {200, 204, 401, 403, 500}

\* What the POST of a tick can end with: a response (status and body) or
\* an exception raised while awaiting it.
FetchOutcomes ==
  {[kind |-> "response", status |-> 200, body |-> b, err |-> <<>>] : b \in TickBodies}
    \cup {[kind |-> "response", status |-> st, body |-> b, err |-> <<>>] :
            st \in Statuses \ {200}, b \in ErrorBodies}
    \cup {[kind |-> k, status |-> 0, body |-> [sits |-> <<>>, other |-> 6],
           err |-> IF k = "timeout" THEN <<>> ELSE <<"r", "e", "s", "e", "t">>] :
            k \in {"timeout", "client_error", "error"}}

\* The observations of one tick: POSTs issued, calls of _parse_response, the
\* fetch outcome, the parse outcome, background tasks started.
NewTick ==
  [requests |-> 0, parse_calls |-> 0, fetched |-> None, parsed |-> None, spawned |-> 0]

\* How a tick leaves _async_update_data: the snapshot it returns or the
\* exception that escapes it, with the type of the exception it was raised
\* from ("" when there is none).
TickReturn(v) ==
  [raised |-> FALSE, type |-> "", msg |-> <<>>, cause |-> "", value |-> Some(v)]

TickRaise(type, msg, cause) ==
  [raised |-> TRUE, type |-> type, msg |-> msg, cause |-> cause, value |-> None]

\* The exceptions derived from TrafikinfoError.
TrafikinfoErrors ==
  {"TrafikinfoConnectionError", "TrafikinfoAuthenticationError",
   "TrafikinfoAPIError", "TrafikinfoParseError"}

\* A filter stage that applies the road filter alone.
FilteredByRoadsOnly(self, events) == ApplyRoadFilter(self, events)

\* [e for e in data.events if self._include_event(e)], then the road filter.
Filtered(self, events) ==
  ApplyRoadFilter(self, SelectSeq(events, LAMBDA e : IncludeEvent(self, e)))

\* [e.icon_id for e in filtered if e.icon_id]
IconIds(events) ==
  LET with == SelectSeq(events, LAMBDA e : Truthy(e.icon_id))
  IN  [i \in 1..Len(with) |-> Val(with[i].icon_id)]

\* The icon ids of the deviations of the feed documents.
IconsInFeed == {<<"i", "1">>, <<"i", "2">>}

IconUniverse == IconsInFeed \cup {CategoryIcons[i] : i \in 1..Len(CategoryIcons)}

\* The paths of the cache directory: the final path of each icon under
\* each extension, and the temporary path next to it.
FinalPaths == {SafeIconFilename(id, ext) : id \in IconUniverse, ext \in {W_png, W_svg}}

CachePaths == FinalPaths \cup {TmpPath(p) : p \in FinalPaths}

\* No icon has a local reference; no file is in the cache directory.
NoIconUrls == [id \in IconUniverse |-> None]

EmptyCacheDir == [p \in CachePaths |-> None]

\* What a GET of an icon ends with: a response (status, Content-Type
\* header, payload) or an exception (timeout, connection error).
IconResponse(status, ctype, content) ==
  [kind |-> "response", status |-> status, ctype |-> ctype, content |-> content]

IconError == [kind |-> "error", status |-> 0, ctype |-> <<>>, content |-> <<>>]

NoResponse == [kind |-> "none", status |-> 0, ctype |-> <<>>, content |-> <<>>]

\* A task that has run to its end when it is set up, as if the tick had
\* awaited _cache_icons_background inline.
AwaitedTask(icon_ids) ==
  [queue |-> <<>>, pos |-> "done", url |-> 0, resp |-> NoResponse, ext |-> <<>>,
   handle |-> "", tried |-> <<>>, seen |-> <<>>]

\* A background task as hass.async_create_background_task sets it up: the
\* coroutine _cache_icons_background(icon_ids), not yet run.  queue holds
\* the icons still to ensure, the one at hand first; pos is the await the
\* coroutine (or its executor job) stands at; url is the candidate asked
\* (1 the v2 URL, 2 the v1 URL); resp and ext are the response taken and the
\* extension it is stored under; handle is where the file the write job has
\* open lies ("tmp", "final", "orphan"; "" when it has none open); tried
\* holds what the GETs for the icon at hand have ended with so far; seen
\* holds the icons _ensure_icon_cached has been called for, in order.
NewTask(icon_ids) ==
  [queue |-> IconQueue(icon_ids), pos |-> "start", url |-> 0, resp |-> NoResponse,
   ext |-> <<>>, handle |-> "", tried |-> <<>>, seen |-> <<>>]

Init ==
  /\ entry \in Entries
  /\ coord = Construct(entry)
  /\ pc = "Idle"
  /\ clock = 2
  /\ ticks = 0
  /\ tick = NewTick
  /\ result = None
  /\ bg_tasks = <<>>
  /\ icon_local_urls = NoIconUrls
  /\ files = EmptyCacheDir

\* The config entry is changed (options flow, service call).
UpdateEntry(e) ==
  /\ pc \in {"Idle", "Fetching"}
  /\ e # entry
  /\ entry' = e
  /\ UNCHANGED <<coord, pc, clock, ticks, tick, result, bg_tasks, icon_local_urls, files>>

\* apply_options()
ApplyOptions ==
  /\ pc \in {"Idle", "Fetching"}
  /\ coord' = ApplyOptionsTo(coord, entry)
  /\ UNCHANGED <<entry, pc, clock, ticks, tick, result, bg_tasks, icon_local_urls, files>>

\* _async_update_data up to its first await: without an API key the tick
\* raises at once, else it issues the POST and waits.
TickStart ==
  /\ pc = "Idle"
  /\ ticks < MaxTicks
  /\ ticks' = ticks + 1
  /\ IF coord.api_key = <<>>
     THEN /\ pc' = "Failed"
          /\ tick' = NewTick
          /\ result' = Some(TickRaise("TrafikinfoAuthenticationError",
                                      <<"Missing API key">>, ""))
     ELSE /\ pc' = "Fetching"
          /\ tick' = [NewTick EXCEPT !.requests = 1]
          /\ result' = None
  /\ UNCHANGED <<entry, coord, clock, bg_tasks, icon_local_urls, files>>

\* A status test that knows 401 alone.
IsAuthStatus401Only(status) == status = 401

\* resp.status in (401, 403)
IsAuthStatus(status) == status \in {401, 403}

\* A failure handling that issues the request once more inside the tick
\* before it gives up.
FailRetrying(out, failure) ==
  IF tick.requests < 2
  THEN /\ pc' = "Fetching"
       /\ tick' = [tick EXCEPT !.requests = @ + 1]
       /\ result' = None
       /\ UNCHANGED <<clock, bg_tasks>>
  ELSE /\ pc' = "Failed"
       /\ tick' = [tick EXCEPT !.fetched = Some(out)]
       /\ result' = Some(failure)
       /\ UNCHANGED <<clock, bg_tasks>>

\* The tick fails: the exception leaves _async_update_data.
Fail(out, failure) ==
  /\ pc' = "Failed"
  /\ tick' = [tick EXCEPT !.fetched = Some(out)]
  /\ result' = Some(failure)
  /\ UNCHANGED <<clock, bg_tasks>>

\* _async_update_data from the end of the POST to its return or raise.
TickResume(out, now) ==
  /\ pc = "Fetching"
  /\ UNCHANGED <<entry, coord, ticks, icon_local_urls, files>>
  /\ CASE out.kind = "timeout" ->
            Fail(out, TickRaise("UpdateFailed",
                   <<"Request timeout - Trafikverket API not responding">>, "TimeoutError"))
       [] out.kind = "client_error" ->
            Fail(out, TickRaise("UpdateFailed", <<"Connection error: ">> \o out.err,
                                "ClientError"))
       [] out.kind = "error" ->
            Fail(out, TickRaise("UpdateFailed",
                   <<"Unexpected error fetching Trafikverket data: ">> \o out.err,
                   "Exception"))
       [] out.kind = "response" /\ IsAuthStatus(out.status) ->
            Fail(out, TickRaise("UpdateFailed",
                   <<"Authentication failed: HTTP ">> \o IntToStr(out.status),
                   "TrafikinfoAuthenticationError"))
       [] out.kind = "response" /\ ~IsAuthStatus(out.status) /\ out.status # 200 ->
            Fail(out, TickRaise("UpdateFailed",
                   <<"Trafikverket API returned HTTP ">> \o IntToStr(out.status)
                     \o <<": ">> \o TextHead(DocOf(out.body)),
                   "TrafikinfoAPIError"))
       [] out.kind = "response" /\ ~IsAuthStatus(out.status) /\ out.status = 200 ->
            \E parsed \in {ParseResponse(DocOf(out.body), now)} :
              /\ clock' = now
              /\ tick' = [tick EXCEPT !.fetched = Some(out), !.parse_calls = 1,
                                      !.parsed = Some(parsed),
                                      !.spawned = IF parsed.raised THEN 0 ELSE 1]
              /\ IF parsed.raised
                 THEN /\ pc' = "Failed"
                      /\ result' =
                           Some(IF parsed.type \in TrafikinfoErrors
                                THEN TickRaise("UpdateFailed", parsed.msg, parsed.type)
                                ELSE TickRaise(parsed.type, parsed.msg, ""))
                      /\ UNCHANGED bg_tasks
                 ELSE \E filtered \in {Filtered(coord, Val(parsed.value).events)} :
                        /\ pc' = "Ready"
                        /\ bg_tasks' = Append(bg_tasks, NewTask(IconIds(filtered)))
                        /\ result' =
                             Some(TickReturn(TrafikinfoData(
                                    filtered,
                                    Val(parsed.value).last_modified,
                                    Val(parsed.value).last_change_id,
                                    Val(parsed.value).sse_url)))

\* The caller has taken the result of the tick; the next tick starts anew.
TickDone ==
  /\ pc \in {"Ready", "Failed"}
  /\ pc' = "Idle"
  /\ tick' = NewTick
  /\ result' = None
  /\ UNCHANGED <<entry, coord, clock, ticks, bg_tasks, icon_local_urls, files>>

(***************************************************************************)
(* The background icon task: _cache_icons_background, _ensure_icons_cached, *)
(* _ensure_category_icons_cached, _ensure_icon_cached, _async_write_file    *)
(*                                                                         *)
(* The coroutine of a task runs on the event loop from one await to the    *)
(* next in one step; _try_unlink and _write run in executor threads, one   *)
(* file operation per step.                                                *)
(***************************************************************************)

\* _ensure_icon_cached for the icons of the queue, one after the other, as
\* far as it returns without awaiting: an icon that has a reference is
\* passed, one with a non-empty cache file gets its reference.  For an icon
\* whose file name is too long, _file_nonempty takes the OSError of stat()
\* as "no", and png_path.exists() of the clean-up then raises it: the
\* exception leaves _ensure_icon_cached and the loop that called it.
Settle(queue, urls, fs, seen) ==
  LET resolved(icon_id) == icon_id \in DOMAIN urls /\ urls[icon_id] # None
      png_name(icon_id) == SafeIconFilename(icon_id, W_png)
      svg_name(icon_id) == SafeIconFilename(icon_id, W_svg)
      returns(icon_id) ==
        \/ resolved(icon_id)
        \/ FileNonempty(fs, png_name(icon_id))
        \/ FileNonempty(fs, svg_name(icon_id))
      stops == {i \in 1..Len(queue) : ~returns(queue[i])}
      at == IF stops = {} THEN Len(queue) + 1
            ELSE CHOOSE i \in stops : \A j \in stops : i <= j
      passed == {queue[i] : i \in 1..(at - 1)}
  IN  [queue |-> SubSeq(queue, at, Len(queue)),
       urls |-> [icon_id \in DOMAIN urls |->
                   IF icon_id \notin passed \/ resolved(icon_id) THEN urls[icon_id]
                   ELSE IF FileNonempty(fs, png_name(icon_id))
                   THEN Some(LocalUrl(png_name(icon_id)))
                   ELSE Some(LocalUrl(svg_name(icon_id)))],
       seen |-> seen \o SubSeq(queue, 1, Min2(at, Len(queue))),
       raised |-> at <= Len(queue) /\ NameTooLong(png_name(queue[at]))]

\* The await the coroutine stops at for the icon at the head of the queue:
\* the unlink of an empty file, else the GET of the first URL.
Awaiting(queue, fs, seen) ==
  LET icon_id == Head(queue)
      at == IF fs[SafeIconFilename(icon_id, W_png)] # None THEN "unlink_png"
            ELSE IF fs[SafeIconFilename(icon_id, W_svg)] # None THEN "unlink_svg"
            ELSE "get"
  IN  [queue |-> queue, pos |-> at, url |-> IF at = "get" THEN 1 ELSE 0,
       resp |-> NoResponse, ext |-> <<>>, handle |-> "", tried |-> <<>>, seen |-> seen]

\* The coroutine _cache_icons_background has returned: after its last icon,
\* or after its "except Exception" has logged what one of them raised.
DoneTask(seen) ==
  [queue |-> <<>>, pos |-> "done", url |-> 0, resp |-> NoResponse, ext |-> <<>>,
   handle |-> "", tried |-> <<>>, seen |-> seen]

\* The coroutine goes on with the icons of queue up to its next await or
\* its end: the task it becomes and the references it leaves.
Proceed(queue, urls, fs, seen) ==
  LET st == Settle(queue, urls, fs, seen)
  IN  [urls |-> st.urls,
       task |-> IF st.queue = <<>> \/ st.raised THEN DoneTask(st.seen)
                ELSE Awaiting(st.queue, fs, st.seen)]

\* "continue" of the loop over the URLs: the next URL, and after the last
\* one the return of _ensure_icon_cached without a reference.
NextCandidate(task, urls, fs) ==
  IF task.url = 1
  THEN [urls |-> urls,
        task |-> [task EXCEPT !.pos = "get", !.url = 2, !.resp = NoResponse,
                              !.ext = <<>>, !.handle = ""]]
  ELSE Proceed(Tail(task.queue), urls, fs, task.seen)

\* The final path the task at hand writes to, and its temporary path.
FinalOf(task) == SafeIconFilename(Head(task.queue), task.ext)

\* The task k becomes t; the open files of the other tasks follow what the
\* step did to the file at path: moved(h) is where a file that lay at h
\* ("tmp" or "final" of path) lies now.
WithTask(k, t, path, moved(_)) ==
  [j \in 1..Len(bg_tasks) |->
     IF j = k THEN t
     ELSE IF bg_tasks[j].handle # "" /\ FinalOf(bg_tasks[j]) = path
     THEN [bg_tasks[j] EXCEPT !.handle = moved(bg_tasks[j].handle)]
     ELSE bg_tasks[j]]

SetTask(k, t) == [bg_tasks EXCEPT ![k] = t]

TickVars == <<entry, coord, pc, clock, ticks, tick, result>>

\* The event loop runs the coroutine of task k for the first time.
IconTaskStart(k) ==
  /\ bg_tasks[k].pos = "start"
  /\ \E next \in {Proceed(bg_tasks[k].queue, icon_local_urls, files, bg_tasks[k].seen)} :
       /\ bg_tasks' = SetTask(k, next.task)
       /\ icon_local_urls' = next.urls
  /\ UNCHANGED <<TickVars, files>>

\* An executor thread runs _try_unlink for task k: the file goes, or the
\* unlink fails and the exception is dropped.
IconUnlinkJob(k, ok) ==
  /\ bg_tasks[k].pos \in {"unlink_png", "unlink_svg"}
  /\ LET task == bg_tasks[k]
         ext == IF task.pos = "unlink_png" THEN W_png ELSE W_svg
         path == SafeIconFilename(Head(task.queue), ext)
         after == [task EXCEPT !.pos = IF task.pos = "unlink_png" THEN "unlinked_png"
                                       ELSE "unlinked_svg"]
     IN  IF ok
         THEN /\ files' = [files EXCEPT ![path] = None]
              /\ bg_tasks' = WithTask(k, after, path,
                                      LAMBDA h : IF h = "final" THEN "orphan" ELSE h)
         ELSE /\ bg_tasks' = SetTask(k, after)
              /\ UNCHANGED files
  /\ UNCHANGED <<TickVars, icon_local_urls>>

\* The coroutine of task k resumes after an unlink: after the one of the
\* PNG path it looks at the SVG path, and then it issues the first GET.
IconUnlinkResume(k) ==
  /\ bg_tasks[k].pos \in {"unlinked_png", "unlinked_svg"}
  /\ LET task == bg_tasks[k]
         svg == files[SafeIconFilename(Head(task.queue), W_svg)]
     IN  bg_tasks' =
           SetTask(k, IF task.pos = "unlinked_png" /\ svg # None /\ Val(svg) = <<>>
                      THEN [task EXCEPT !.pos = "unlink_svg"]
                      ELSE [task EXCEPT !.pos = "get", !.url = 1])
  /\ UNCHANGED <<TickVars, icon_local_urls, files>>

\* The GET of task k ends with r and the coroutine resumes: an exception, a
\* status other than 200 and a payload that is not the image the response
\* makes it out to be lead to the next URL; an image is handed to the
\* executor to be written.
IconFetched(k, r) ==
  /\ bg_tasks[k].pos = "get"
  /\ LET task == [bg_tasks[k] EXCEPT !.tried = Append(@, r)]
         ext == IF r.kind = "response" THEN AcceptedExt(r) ELSE None
     IN  IF ext = None
         THEN \E next \in {NextCandidate(task, icon_local_urls, files)} :
                /\ bg_tasks' = SetTask(k, next.task)
                /\ icon_local_urls' = next.urls
         ELSE /\ bg_tasks' = SetTask(k, [task EXCEPT !.pos = "write_queued", !.resp = r,
                                                     !.ext = Val(ext)])
              /\ UNCHANGED icon_local_urls
  /\ UNCHANGED <<TickVars, files>>

\* _write of task k opens the temporary file: open(tmp, "wb") creates it or
\* cuts the file that lies there to no content.
IconWriteOpen(k) ==
  /\ bg_tasks[k].pos = "write_queued"
  /\ files' = [files EXCEPT ![TmpPath(FinalOf(bg_tasks[k]))] = Some(<<>>)]
  /\ bg_tasks' = SetTask(k, [bg_tasks[k] EXCEPT !.pos = "write_opened", !.handle = "tmp"])
  /\ UNCHANGED <<TickVars, icon_local_urls>>

\* What a file of content old holds after data is written at its start.
Overwritten(old, data) == data \o SubSeq(old, Len(data) + 1, Len(old))

\* _write of task k writes the payload into the file it has open, wherever
\* that file lies by now, and closes it.
IconWriteBytes(k) ==
  /\ bg_tasks[k].pos = "write_opened"
  /\ LET task == bg_tasks[k]
         path == IF task.handle = "tmp" THEN TmpPath(FinalOf(task)) ELSE FinalOf(task)
     IN  IF task.handle = "orphan"
         THEN UNCHANGED files
         ELSE files' = [files EXCEPT
                          ![path] = Some(Overwritten(Val(files[path]), task.resp.content))]
  /\ bg_tasks' = SetTask(k, [bg_tasks[k] EXCEPT !.pos = "write_filled", !.handle = ""])
  /\ UNCHANGED <<TickVars, icon_local_urls>>

\* _write of task k renames the temporary file to the final path;
\* FileNotFoundError when no file lies at the temporary path.
IconWriteReplace(k) ==
  /\ bg_tasks[k].pos = "write_filled"
  /\ LET task == bg_tasks[k]
         final == FinalOf(task)
     IN  IF files[TmpPath(final)] = None
         THEN /\ bg_tasks' = SetTask(k, [task EXCEPT !.pos = "write_raised"])
              /\ UNCHANGED files
         ELSE /\ files' = [files EXCEPT ![final] = files[TmpPath(final)],
                                        ![TmpPath(final)] = None]
              /\ bg_tasks' = WithTask(k, [task EXCEPT !.pos = "written"], final,
                                      LAMBDA h : IF h = "tmp" THEN "final" ELSE "orphan")
  /\ UNCHANGED <<TickVars, icon_local_urls>>

\* The coroutine of task k resumes after _async_write_file: it records the
\* reference and returns, or the exception of the job takes it to the next
\* URL.
IconWriteResume(k) ==
  /\ bg_tasks[k].pos \in {"written", "write_raised"}
  /\ LET task == bg_tasks[k]
         urls == [icon_local_urls EXCEPT
                    ![Head(task.queue)] = Some(LocalUrl(FinalOf(task)))]
     IN  \E next \in {IF task.pos = "written"
                      THEN Proceed(Tail(task.queue), urls, files, task.seen)
                      ELSE NextCandidate(task, icon_local_urls, files)} :
           /\ bg_tasks' = SetTask(k, next.task)
           /\ icon_local_urls' = next.urls
  /\ UNCHANGED <<TickVars, files>>

Next ==
  \/ \E e \in Entries : UpdateEntry(e)
  \/ ApplyOptions
  \/ TickStart
  \/ TickDone
  \/ \E out \in FetchOutcomes, now \in clock..Min2(clock + 1, MaxClock) : TickResume(out, now)

Spec == Init /\ [][Next]_vars

(***************************************************************************)
(* What a state shows of the call at hand                                  *)
(***************************************************************************)

\* The body the POST was answered with, and its response text.
GivenBody == Val(tick.fetched).body

GivenDoc == DocOf(GivenBody)

\* The Situation elements of a generated feed document.
GivenSituations == [i \in 1..Len(GivenBody.sits) |-> Situations[GivenBody.sits[i]]]

\* How _parse_response ended, and the snapshot it returned.
Parsed == Val(tick.parsed)

ParsedData == Val(Parsed.value)

\* The events _parse_response returned, none when it raised.
ParsedEvents == IF Parsed.raised THEN <<>> ELSE ParsedData.events

\* The snapshot the tick (or the filter stage) returned.
Snapshot == Val(Val(result).value)

InSeq(e, q) == \E m \in 1..Len(q) : q[m] = e

TextOf(o) == IF IsNone(o) THEN <<>> ELSE Val(o)

(***************************************************************************)
(* _parse_response on its own: every response text at every instant        *)
(***************************************************************************)

ParseInit ==
  /\ entry = EntryCoordinate
  /\ coord = Construct(entry)
  /\ pc = "Parsing"
  /\ clock \in 2..MaxClock
  /\ ticks = 0
  /\ tick \in {[NewTick EXCEPT !.fetched = Some([kind |-> "response", status |-> 200,
                                                  body |-> b, err |-> <<>>])] :
                 b \in Bodies}
  /\ result = None
  /\ bg_tasks = <<>>
  /\ icon_local_urls = NoIconUrls
  /\ files = EmptyCacheDir

\* data = _parse_response(text), utcnow() giving clock.
ParseCall ==
  /\ pc = "Parsing"
  /\ pc' = "Parsed"
  /\ \E parsed \in {ParseResponse(GivenDoc, clock)} :
       tick' = [tick EXCEPT !.parse_calls = 1, !.parsed = Some(parsed)]
  /\ UNCHANGED <<entry, coord, clock, ticks, result, bg_tasks, icon_local_urls, files>>

SpecParse == ParseInit /\ [][ParseCall]_vars

(***************************************************************************)
(* The filter stage on its own: every event under every filter setting     *)
(***************************************************************************)

\* Geometries: a point at each distance from the centre (latitude 5), a
\* point with a Z component, a line of 200 points and one of 201 points
\* whose last point alone is at the centre, a text with no number, none.
FilterGeometries ==
  {Some(WktPoint(lat)) : lat \in 3..8}
    \cup {Some(WktPointZ(6)), Some(WktLine(199, 9, 5)), Some(WktLine(200, 9, 5)),
          Some(<<"P", "O", "I", "N", "T", " ", "E", "M", "P", "T", "Y">>), None}

FilterDeviations ==
  {[BaseDev EXCEPT !.WGS84 = g, !.SafetyRelatedMessage = Some(sf), !.CountyNo = c] :
     g \in FilterGeometries, sf \in {T_true, T_false},
     c \in {<<>>, <<<<"5">>>>, <<<<"1">>>>, <<<<"5">>, <<"0", "1">>>>}}

FilterEvents ==
  {MakeEvent(SituationElem(Some(<<"s", "1">>), Some(<<"T", "2", "Z">>), None, <<>>),
             DeviationElem(d)) : d \in FilterDeviations}

\* Road numbers and road names of deviations for the road filter.
RoadNumbers == {None, Some(T_163), Some(T_E4), Some(<<"1", "1", "6", "3">>)}

RoadNames ==
  {None, Some(<<"V", "ä", "g", " ", "1", "6", "3">>),
   Some(<<"G", "a", "m", "l", "a", " ", "E", "4">>), Some(<<"E">>)}

\* Deviations inside the radius of BaseData, with and without the message
\* type that makes an event important.
RoadDeviations ==
  {[BaseDev EXCEPT !.RoadNumber = no, !.RoadName = name, !.MessageType = mt] :
     no \in RoadNumbers, name \in RoadNames,
     mt \in {Some(<<"O", "l", "y", "c", "k", "a">>), Some(W_viktig)}}

RoadEvents ==
  {MakeEvent(SituationElem(Some(<<"s", "1">>), Some(<<"T", "2", "Z">>), None, <<>>),
             DeviationElem(d)) : d \in RoadDeviations}

RoadEntry(raw) == [options |-> [NoOptions EXCEPT !.filter_roads = Some(raw)], data |-> BaseData]

\* Road filters: a delimited string, a string of prefixes and runs of
\* blanks, a list, a token that spans name and number, and values that
\* leave no token.
RoadEntries ==
  {EntryRoads,
   RoadEntry([type |-> "str", list |-> <<>>,
              str |-> <<"R", "o", "a", "d", " ", " ", "e", "4", ",", "g", "a", "m", "l", "a",
                        " ", " ", "E", "4">>]),
   RoadEntry([type |-> "list", list |-> <<<<" ", "1", "6", "3", " ">>, <<" ">>>>, str |-> <<>>]),
   RoadEntry([type |-> "str", list |-> <<>>,
              str |-> <<"v", "a", "g", " ", "1", "6", "3", " ", "E", "4">>]),
   RoadEntry([type |-> "str", list |-> <<>>, str |-> <<" ", ";", ",">>]),
   RoadEntry([type |-> "int", list |-> <<>>, str |-> <<>>])}

CountyEntry(codes) ==
  [options |-> [NoOptions EXCEPT !.filter_mode = Some("county"),
                                 !.counties = Some([type |-> "list", list |-> codes])],
   data |-> BaseData]

\* Entries: each radius from none to the default around the centre, the
\* region mode with one code, two codes, no code, the all-regions sentinel
\* next to a code and a code with a blank before it, and the road filters.
FilterEntries ==
  {[options |-> [NoOptions EXCEPT !.radius_km = Some(r)], data |-> BaseData] : r \in 0..2}
    \cup {[options |-> NoOptions, data |-> [BaseData EXCEPT !.radius_km = None]],
          EntryCounty,
          [options |-> [NoOptions EXCEPT !.filter_mode = Some("county")], data |-> BaseData],
          CountyEntry(<<<<"5">>, <<"1">>>>),
          CountyEntry(<<<<"5">>, COUNTY_ALL>>),
          CountyEntry(<<<<" ", "1">>>>)}
    \cup RoadEntries

FilterInit ==
  /\ entry \in FilterEntries
  /\ coord = Construct(entry)
  /\ pc = "Filtering"
  /\ clock = 2
  /\ ticks = 0
  /\ tick \in {[NewTick EXCEPT
                  !.parsed = Some(Return(TrafikinfoData(<<e>>, None, None, None)))] :
                 e \in FilterEvents \cup RoadEvents}
  /\ result = None
  /\ bg_tasks = <<>>
  /\ icon_local_urls = NoIconUrls
  /\ files = EmptyCacheDir

\* filtered = [e for e in data.events if self._include_event(e)]
\* filtered = self._apply_road_filter(filtered)
FilterCall ==
  /\ pc = "Filtering"
  /\ pc' = "Filtered"
  /\ \E filtered \in {Filtered(coord, ParsedData.events)} :
       result' = Some(TickReturn(TrafikinfoData(filtered, ParsedData.last_modified,
                                                ParsedData.last_change_id,
                                                ParsedData.sse_url)))
  /\ UNCHANGED <<entry, coord, clock, ticks, tick, bg_tasks, icon_local_urls, files>>

SpecFilter == FilterInit /\ [][FilterCall]_vars

(***************************************************************************)
(* sort_events on its own: every short list of events under every sort     *)
(* mode                                                                    *)
(***************************************************************************)

\* An event of situation sid published at pub, from a deviation like
\* BaseDev but for its id, message type and geometry.
SortEvent(sid, pub, did, mt, g) ==
  MakeEvent(SituationElem(Some(sid), pub, None, <<>>),
            DeviationElem([BaseDev EXCEPT !.Id = did, !.MessageType = Some(mt),
                                          !.WGS84 = g]))

W_olycka == <<"O", "l", "y", "c", "k", "a">>

\* Events to sort: near and old, far and new, two at one distance, important
\* ones with and without geometry, one published at the least timestamp, one
\* whose geometry has no point, one whose publication time has no offset,
\* and two deviations of one situation that bear no id, one nearer than the
\* other, both without publication time.
SortPool ==
  {SortEvent(<<"s", "1">>, Some(<<"T", "2", "Z">>), Some(<<"d", "1">>), W_olycka,
             Some(WktPoint(5))),
   SortEvent(<<"s", "1">>, Some(<<"T", "3", "Z">>), Some(<<"d", "2">>), W_olycka,
             Some(WktPoint(8))),
   SortEvent(<<"s", "5">>, Some(<<"T", "3", "Z">>), Some(<<"d", "5">>), W_olycka,
             Some(WktLine(1, 9, 5))),
   SortEvent(<<"s", "3">>, Some(<<"T", "1", "Z">>), Some(<<"d", "3">>), W_viktig, None),
   SortEvent(<<"s", "4">>, Some(<<"T", "2", "Z">>), Some(<<"d", "4">>), W_viktig,
             Some(WktPoint(7))),
   SortEvent(<<"s", "0">>, Some(<<"T", "0", "Z">>), Some(<<"d", "0">>), W_olycka,
             Some(<<"P", "O", "I", "N", "T", " ", "E", "M", "P", "T", "Y">>)),
   SortEvent(<<"s", "6">>, Some(<<"T", "2">>), Some(<<"d", "6">>), W_olycka,
             Some(WktPoint(6))),
   SortEvent(<<"s", "2">>, None, None, W_olycka, Some(WktPoint(6))),
   SortEvent(<<"s", "2">>, None, None, W_olycka, Some(WktPoint(9)))}

\* The longest list sort_events is given.
MaxSortLen == 3

\* The lists of events a snapshot can hold: the parser returns no list whose
\* sort keys fail to compare.
SortLists == {q \in SeqsUpTo(SortPool, MaxSortLen) : ~SortRaises(q)}

SortEntry(mode) ==
  [options |-> [NoOptions EXCEPT !.sort_mode = Some(mode)], data |-> BaseData]

\* Entries: each sort mode and an unknown one around the filter centre, and
\* the nearest mode of the region filter around a sort location of its own.
SortEntries ==
  {SortEntry(m) : m \in {"relevance", "nearest", "newest", "closest"}}
    \cup {[options |-> [NoOptions EXCEPT
                          !.filter_mode = Some("county"), !.sort_mode = Some("nearest"),
                          !.sort_location =
                             Some([type |-> "dict",
                                   latitude |-> Some([ok |-> TRUE, v |-> 8]),
                                   longitude |-> Some([ok |-> TRUE, v |-> 0])])],
           data |-> BaseData]}

SortInit ==
  /\ entry \in SortEntries
  /\ coord = Construct(entry)
  /\ pc = "Sorting"
  /\ clock = 2
  /\ ticks = 0
  /\ tick \in {[NewTick EXCEPT
                  !.parsed = Some(Return(TrafikinfoData(q, None, None, None)))] :
                 q \in SortLists}
  /\ result = None
  /\ bg_tasks = <<>>
  /\ icon_local_urls = NoIconUrls
  /\ files = EmptyCacheDir

\* coordinator.sort_events(events)
SortCall ==
  /\ pc = "Sorting"
  /\ pc' = "Sorted"
  /\ \E sorted \in {SortEvents(coord, ParsedData.events)} :
       result' = Some(TickReturn(sorted))
  /\ UNCHANGED <<entry, coord, clock, ticks, tick, bg_tasks, icon_local_urls, files>>

SpecSort == SortInit /\ [][SortCall]_vars

\* The list sort_events was given and the list it returned.
SortInput == ParsedData.events

SortOutput == Val(Val(result).value)

(***************************************************************************)
(* Ticks with their background icon tasks: the tasks of consecutive ticks  *)
(* run side by side on the event loop and in the executor threads          *)
(***************************************************************************)

PngPayload == PngMagic \o <<"d">>

SvgPayload == <<"LF", "<", "S", "V", "G", ">">>

JsonPayload == <<"{", "}">>

T_image_png == <<"i", "m", "a", "g", "e", "/", "p", "n", "g">>

T_image_svg == <<"I", "m", "a", "g", "e", "/", "S", "V", "G", "+", "x", "m", "l">>

T_json == <<"a", "p", "p", "l", "i", "c", "a", "t", "i", "o", "n", "/", "j", "s", "o", "n">>

\* What an icon endpoint answers: the image under its own content type, a
\* PNG declared as SVG, an SVG without content type, a JSON error body with
\* status 200 and with status 404, a JSON body declared as PNG; or the GET
\* raises (timeout, connection error).
IconResponses ==
  {IconResponse(200, T_image_png, PngPayload),
   IconResponse(200, T_image_svg, SvgPayload),
   IconResponse(200, T_image_svg, PngPayload),
   IconResponse(200, <<>>, SvgPayload),
   IconResponse(200, T_json, JsonPayload),
   IconResponse(200, T_image_png, JsonPayload),
   IconResponse(404, T_json, JsonPayload),
   IconError}

\* The cache directory an earlier run has left: the category icons cached,
\* and of the icon of the feed nothing, an empty file under one or both
\* extensions, or the cached SVG.
CachedCategories ==
  [p \in CachePaths |->
     IF \E i \in 1..Len(CategoryIcons) : p = SafeIconFilename(CategoryIcons[i], W_png)
     THEN Some(PngPayload) ELSE None]

IconCacheDirs ==
  {[CachedCategories EXCEPT ![SafeIconFilename(<<"i", "1">>, W_png)] = png,
                            ![SafeIconFilename(<<"i", "1">>, W_svg)] = svg] :
     png \in {None, Some(<<>>)}, svg \in {None, Some(<<>>), Some(SvgPayload)}}

\* The feed answers a tick with the three-deviation document or with an
\* error status.
IconFetchOutcomes ==
  {[kind |-> "response", status |-> 200, body |-> [sits |-> <<1>>, other |-> 0],
    err |-> <<>>],
   [kind |-> "response", status |-> 500, body |-> [sits |-> <<>>, other |-> 6],
    err |-> <<>>]}

IconInit ==
  /\ entry = EntryCoordinate
  /\ coord = Construct(entry)
  /\ pc = "Idle"
  /\ clock = MaxClock
  /\ ticks = 0
  /\ tick = NewTick
  /\ result = None
  /\ bg_tasks = <<>>
  /\ icon_local_urls = NoIconUrls
  /\ files \in IconCacheDirs

IconTaskNext(k) ==
  \/ IconTaskStart(k)
  \/ \E ok \in BOOLEAN : IconUnlinkJob(k, ok)
  \/ IconUnlinkResume(k)
  \/ \E r \in IconResponses : IconFetched(k, r)
  \/ IconWriteOpen(k)
  \/ IconWriteBytes(k)
  \/ IconWriteReplace(k)
  \/ IconWriteResume(k)

IconNext ==
  \/ TickStart
  \/ TickDone
  \/ \E out \in IconFetchOutcomes, now \in clock..Min2(clock + 1, MaxClock) :
       TickResume(out, now)
  \/ \E k \in 1..Len(bg_tasks) : IconTaskNext(k)

SpecIcons == IconInit /\ [][IconNext]_vars

(***************************************************************************)
(* One background icon task on its own: _cache_icons_background for icon   *)
(* lists with repeated ids, with more distinct ids than the cap, with a    *)
(* category icon among them and with an id too long for a file name        *)
(***************************************************************************)

CacheIcon(n) == <<"i">> \o NatToStr(n)

\* Two icons more than the cap lets through, the first of them twice.
ManyIcons == <<CacheIcon(1)>> \o [n \in 1..(IconCap + 2) |-> CacheIcon(n)]

\* An icon id whose file name, extension included, is one byte longer than
\* the file system takes.
LongIcon == [i \in 1..(NameMax - 3) |-> "a"]

CacheLists ==
  {<<>>,
   <<CacheIcon(1), CacheIcon(1)>>,
   <<CacheIcon(2), CacheIcon(1), CacheIcon(2)>>,
   <<CategoryIcons[1], CacheIcon(1)>>,
   <<LongIcon>>,
   <<CacheIcon(1), LongIcon, CacheIcon(2)>>,
   ManyIcons}

\* The event a deviation with the icon id makes.
CacheEvent(icon_id) ==
  MakeEvent(SituationElem(Some(<<"s", "1">>), Some(<<"T", "1", "Z">>), None, <<>>),
            DeviationElem([BaseDev EXCEPT !.IconId = Some(icon_id)]))

CacheUniverse ==
  {ManyIcons[n] : n \in 1..Len(ManyIcons)}
    \cup {CategoryIcons[i] : i \in 1..Len(CategoryIcons)}

CacheFinalPaths == {SafeIconFilename(id, ext) : id \in CacheUniverse, ext \in {W_png, W_svg}}

\* The cache directory with a PNG for each of the icons ids.
CachedPng(ids) ==
  [p \in CacheFinalPaths \cup {TmpPath(q) : q \in CacheFinalPaths} |->
     IF \E id \in ids : p = SafeIconFilename(id, W_png) THEN Some(PngPayload) ELSE None]

\* The cache directories a task meets: for the long list the PNG of every
\* event icon, with and without those of the category icons; for the others
\* nothing, or an empty file left for the first icon.
CacheDirs(icon_ids) ==
  IF Len(icon_ids) > 3
  THEN {CachedPng({ManyIcons[n] : n \in 1..Len(ManyIcons)}), CachedPng(CacheUniverse)}
  ELSE {CachedPng({}),
        [CachedPng({}) EXCEPT ![SafeIconFilename(CacheIcon(1), W_png)] = Some(<<>>),
                              ![SafeIconFilename(CacheIcon(1), W_svg)] = Some(<<>>)]}

\* What a GET ends with here: the PNG, or an exception.
CacheResponses == {IconResponse(200, T_image_png, PngPayload), IconError}

\* The state a tick leaves whose filtered events carry the icons of one of
\* the lists: the snapshot, and the task for the icons not yet run.
CacheInit ==
  /\ entry = EntryCoordinate
  /\ coord = Construct(entry)
  /\ pc = "Ready"
  /\ clock = MaxClock
  /\ ticks = 1
  /\ tick = [NewTick EXCEPT !.requests = 1, !.parse_calls = 1, !.spawned = 1]
  /\ \E icon_ids \in CacheLists :
       \E events \in {[i \in 1..Len(icon_ids) |-> CacheEvent(icon_ids[i])]} :
         /\ result = Some(TickReturn(TrafikinfoData(events, None, None, None)))
         /\ bg_tasks = <<NewTask(IconIds(events))>>
         /\ files \in CacheDirs(icon_ids)
  /\ icon_local_urls = [id \in CacheUniverse |-> None]

CacheNext ==
  \/ IconTaskStart(1)
  \/ \E ok \in BOOLEAN : IconUnlinkJob(1, ok)
  \/ IconUnlinkResume(1)
  \/ \E r \in CacheResponses : IconFetched(1, r)
  \/ IconWriteOpen(1)
  \/ IconWriteBytes(1)
  \/ IconWriteReplace(1)
  \/ IconWriteResume(1)

SpecCache == CacheInit /\ [][CacheNext]_vars

\* The icon list the task of SpecCache was given.
CacheInput == IconIds(Val(Val(result).value).events)

(***************************************************************************)
(* One background icon task for icon ids that differ in characters no      *)
(* file name keeps; each endpoint serves every icon an image of its own    *)
(***************************************************************************)

\* Icon ids of which the first two share a file name.
NameIcons == {<<"a", ".", "b">>, <<"a", "_", "b">>, <<"a", "b">>}

\* The lists of two distinct icons, in either order.
NameLists == {<<x, y>> : x, y \in NameIcons} \ {<<x, x>> : x \in NameIcons}

NameUniverse == NameIcons \cup {CategoryIcons[i] : i \in 1..Len(CategoryIcons)}

NameFinalPaths == {SafeIconFilename(id, ext) : id \in NameUniverse, ext \in {W_png, W_svg}}

\* The images the endpoints hold for an icon: a PNG and an SVG that carry
\* the icon id in their bytes.
PngOf(icon_id) == PngMagic \o icon_id

SvgOf(icon_id) == SvgPayload \o icon_id

\* What a GET for the icon ends with: one of its images, or an exception.
NameResponses(icon_id) ==
  {IconResponse(200, T_image_png, PngOf(icon_id)),
   IconResponse(200, T_image_svg, SvgOf(icon_id)), IconError}

NameInit ==
  /\ entry = EntryCoordinate
  /\ coord = Construct(entry)
  /\ pc = "Ready"
  /\ clock = MaxClock
  /\ ticks = 1
  /\ tick = [NewTick EXCEPT !.requests = 1, !.parse_calls = 1, !.spawned = 1]
  /\ \E icon_ids \in NameLists :
       \E events \in {[i \in 1..Len(icon_ids) |-> CacheEvent(icon_ids[i])]} :
         /\ result = Some(TickReturn(TrafikinfoData(events, None, None, None)))
         /\ bg_tasks = <<NewTask(IconIds(events))>>
  /\ files = [p \in NameFinalPaths \cup {TmpPath(q) : q \in NameFinalPaths} |-> None]
  /\ icon_local_urls = [id \in NameUniverse |-> None]

\* The GET of the task ends with what the endpoint holds for the icon asked
\* for.
NameFetched ==
  /\ bg_tasks[1].pos = "get"
  /\ \E r \in NameResponses(Head(bg_tasks[1].queue)) : IconFetched(1, r)

NameNext ==
  \/ IconTaskStart(1)
  \/ NameFetched
  \/ IconWriteOpen(1)
  \/ IconWriteBytes(1)
  \/ IconWriteReplace(1)
  \/ IconWriteResume(1)

SpecNames == NameInit /\ [][NameNext]_vars

(***************************************************************************)
(* Ticks that all succeed on a feed with more icons than the cap, with     *)
(* icon endpoints that always answer with an image; the scheduler keeps    *)
(* starting ticks, the event loop and the executor keep running what is    *)
(* ready                                                                   *)
(***************************************************************************)

\* The feed answers every tick with the many-icons document.
ManyIconsOutcome ==
  [kind |-> "response", status |-> 200,
   body |-> [sits |-> <<>>, other |-> Len(OtherDocs) + 1], err |-> <<>>]

\* The icons of the feed that are not cached yet.
UncachedIcons == {CacheIcon(1), CacheIcon(2), CacheIcon(10)}

ImageResponses ==
  {IconResponse(200, T_image_png, PngPayload), IconResponse(200, T_image_svg, SvgPayload)}

ManyIconsInit ==
  /\ entry = EntryCoordinate
  /\ coord = Construct(entry)
  /\ pc = "Idle"
  /\ clock = MaxClock
  /\ ticks = 0
  /\ tick = NewTick
  /\ result = None
  /\ bg_tasks = <<>>
  /\ icon_local_urls = [id \in CacheUniverse |-> None]
  /\ files = CachedPng(CacheUniverse \ UncachedIcons)

ManyIconsTaskNext(k) ==
  \/ IconTaskStart(k)
  \/ \E r \in ImageResponses : IconFetched(k, r)
  \/ IconWriteOpen(k)
  \/ IconWriteBytes(k)
  \/ IconWriteReplace(k)
  \/ IconWriteResume(k)

ManyIconsNext ==
  \/ TickStart
  \/ TickDone
  \/ TickResume(ManyIconsOutcome, clock)
  \/ \E k \in 1..Len(bg_tasks) : ManyIconsTaskNext(k)

\* The request of a tick ends: it answers or its 20 second timeout expires.
RequestEnds == (pc = "Fetching") ~> (pc # "Fetching")

\* A background task ends: it makes finitely many awaits, the downloads among
\* them under a 15 second timeout, the file jobs on the executor.
TaskEnds(k) ==
  (Len(bg_tasks) >= k) ~> (Len(bg_tasks) >= k /\ bg_tasks[k].pos = "done")

\* The scheduler keeps starting ticks, the event loop publishes a finished
\* tick, and what a tick or a task awaits comes to an end.
SpecManyIcons ==
  /\ ManyIconsInit
  /\ [][ManyIconsNext]_vars
  /\ WF_vars(TickStart)
  /\ WF_vars(TickDone)
  /\ RequestEnds
  /\ \A k \in 1..MaxTicks : TaskEnds(k)

(***************************************************************************)
(* Configuration changes on their own: entries are stored and applied in   *)
(* any order                                                               *)
(***************************************************************************)

\* Values stored under sort_location: none, a dict with both coordinates,
\* dicts that lack one, a dict with a latitude float() rejects, and a value
\* that is no dict.
SortLocations ==
  {None,
   Some([type |-> "dict", latitude |-> Some([ok |-> TRUE, v |-> 8]),
         longitude |-> Some([ok |-> TRUE, v |-> 3])]),
   Some([type |-> "dict", latitude |-> Some([ok |-> TRUE, v |-> 9]), longitude |-> None]),
   Some([type |-> "dict", latitude |-> Some([ok |-> FALSE, v |-> 0]),
         longitude |-> Some([ok |-> TRUE, v |-> 3])]),
   Some([type |-> "other", latitude |-> None, longitude |-> None])}

\* Entries that differ in filter mode, filter centre and sort location.
LocationEntries ==
  {[options |-> [NoOptions EXCEPT !.filter_mode = Some(m), !.sort_location = loc,
                                  !.latitude = lat, !.longitude = lat],
    data |-> BaseData] :
     m \in {"coordinate", "county", "sweden"}, loc \in SortLocations,
     lat \in {None, Some(6)}}

\* Entries that differ in filter mode, sort mode and poll interval, stored
\* values of earlier versions and values out of range among them.
ModeEntries ==
  {[options |-> [NoOptions EXCEPT !.filter_mode = m, !.sort_mode = s, !.scan_interval = i],
    data |-> BaseData] :
     m \in {None, Some("county"), Some("sweden"), Some("")},
     s \in {None, Some("nearest"), Some("newest"), Some("closest")},
     i \in {None, Some(0 - 5), Some(0), Some(1), Some(30)}}

\* An entry of the region mode with another API key.
EntryOtherKey ==
  [options |-> [NoOptions EXCEPT !.filter_mode = Some("county")],
   data |-> [BaseData EXCEPT !.api_key = Some(<<"k", "2">>)]]

ConfigEntries == LocationEntries \cup ModeEntries \cup {EntryOtherKey}

ConfigInit ==
  /\ entry \in ConfigEntries
  /\ coord = Construct(entry)
  /\ pc = "Idle"
  /\ clock = 0
  /\ ticks = 0
  /\ tick = NewTick
  /\ result = None
  /\ bg_tasks = <<>>
  /\ icon_local_urls = NoIconUrls
  /\ files = EmptyCacheDir

ConfigNext ==
  \/ \E e \in ConfigEntries : UpdateEntry(e)
  \/ ApplyOptions

SpecConfig == ConfigInit /\ [][ConfigNext]_vars

(***************************************************************************)
(* The message type sensor (sensor.py): the incident events a sensor fires *)
(* on the bus when the coordinator publishes an update                     *)
(*                                                                         *)
(* In SpecSensor, result holds coordinator.data (None before the first     *)
(* successful refresh), tick holds the attributes of the one sensor and    *)
(* the events it fired at the latest update, and ticks counts the updates  *)
(* the sensor has handled.                                                 *)
(***************************************************************************)

W_hinder == <<"H", "i", "n", "d", "e", "r">>

W_vagarbete == <<"V", "ä", "g", "a", "r", "b", "e", "t", "e">>

W_accident == <<"A", "c", "c", "i", "d", "e", "n", "t">>

W_general_obstruction == <<"G", "e", "n", "e", "r", "a", "l", "O", "b", "s", "t", "r", "u", "c", "t", "i", "o", "n">>

W_maintenance_works == <<"M", "a", "i", "n", "t", "e", "n", "a", "n", "c", "e", "W", "o", "r", "k", "s">>

W_none == <<"N", "o", "n", "e">>

\* MESSAGE_TYPES, as far as the events of the model go.
MESSAGE_TYPES == {W_viktig, W_hinder, W_olycka, W_vagarbete}

\* MESSAGE_TYPE_VALUE_TO_CATEGORY.get(msg_value), for the code values of the
\* model.
MappedCategory(msg_value) ==
  IF msg_value = W_accident THEN Some(W_olycka)
  ELSE IF msg_value = W_general_obstruction THEN Some(W_hinder)
  ELSE IF msg_value = W_maintenance_works THEN Some(W_vagarbete)
  ELSE None

\* _category_for_event
CategoryForEvent(event) ==
  IF ~IsNone(event.message_type) /\ Val(event.message_type) \in MESSAGE_TYPES
  THEN event.message_type
  ELSE IF ~IsNone(event.message_type_value)
          /\ ~IsNone(MappedCategory(Val(event.message_type_value)))
  THEN MappedCategory(Val(event.message_type_value))
  ELSE IF ~IsNone(event.message_type) /\ StrStrip(Val(event.message_type)) # <<>>
  THEN Some(StrStrip(Val(event.message_type)))
  ELSE None

\* hashlib.sha1(text).hexdigest(): the digest stands for the text it was
\* taken of.
Sha1Hex(text) == <<"sha1:">> \o text

\* str(v) of an optional text.
StrOf(v) == IF IsNone(v) THEN W_none ELSE Val(v)

\* _incident_key
IncidentKey(event) ==
  IF Truthy(event.deviation_id) THEN event.deviation_id
  ELSE IF Truthy(event.situation_id) THEN event.situation_id
  ELSE IF Truthy(event.message)
  THEN Some(Sha1Hex(StrOf(event.header) \o <<"|">> \o Val(event.message)))
  ELSE None

\* datetime.isoformat()
IsoFormat(d) ==
  <<"T">> \o NatToStr(d.t) \o (IF d.aware THEN <<"+00:00">> ELSE <<>>)

\* "|".join(parts)
JoinBar(parts) ==
  Flatten([i \in 1..(2 * Len(parts) - 1) |->
             IF i % 2 = 1 THEN parts[(i + 1) \div 2] ELSE <<"|">>])

\* _incident_signature: the five timestamps (isoformat, or str(None)), then
\* the six texts ("" for None).
IncidentSignature(event) ==
  LET stamp(v) == IF IsNone(v) THEN W_none ELSE IsoFormat(Val(v))
      txt(v) == IF IsNone(v) THEN <<>> ELSE Val(v)
  IN  JoinBar(<<stamp(event.modified_time), stamp(event.version_time),
                stamp(event.publication_time), stamp(event.end_time),
                stamp(event.start_time),
                IF IsNone(event.severity_code) THEN <<>>
                ELSE IntToStr(Val(event.severity_code)),
                txt(event.severity_text), txt(event.message_type),
                txt(event.message_type_value), txt(event.header),
                txt(event.message)>>)

\* _EVENT_PUBLISH_TYPES
EVENT_PUBLISH_TYPES == {W_hinder, W_olycka}

\* added_or_changed[:200]
FireCap == 200

\* TrafikinfoMessageTypeSensor.__init__, with the events the sensor fired at
\* the latest update.
NewSensor(message_type) ==
  [message_type |-> message_type,
   incident_bus_name |->
     IF message_type \in EVENT_PUBLISH_TYPES
     THEN Some(<<"trafikinfo_se_">> \o Lower(message_type) \o <<"_incident">>)
     ELSE None,
   diff_initialized |-> FALSE,
   last_incident_signatures |-> <<>>,
   fired |-> <<>>]

\* _filtered_events
SensorFilteredEvents(self, data) ==
  IF IsNone(data) THEN <<>>
  ELSE SelectSeq(Val(data).events,
                 LAMBDA e : CategoryForEvent(e) = Some(self.message_type))

\* The dict cur of _maybe_fire_event as the sequence of its items: a key
\* stands where it was first inserted, with the signature of the last event
\* that bears it.
CurrentSignatures(filtered) ==
  LET n == Len(filtered)
      keys == SubSeq([i \in 1..n |-> IncidentKey(filtered[i])], 1, n)
      first == SelectSeq([i \in 1..n |-> i],
                         LAMBDA i : /\ Truthy(keys[i])
                                    /\ \A j \in 1..(i - 1) : keys[j] # keys[i])
      last(i) == CHOOSE j \in i..n :
                   keys[j] = keys[i] /\ \A m \in (j + 1)..n : keys[m] # keys[i]
  IN  [p \in 1..Len(first) |->
         [key |-> Val(keys[first[p]]),
          sig |-> IncidentSignature(filtered[last(first[p])])]]

\* prev.get(k)
SignatureOf(items, k) ==
  LET at == {i \in 1..Len(items) : items[i].key = k}
  IN  IF at = {} THEN None ELSE Some(items[CHOOSE i \in at : TRUE].sig)

\* _maybe_fire_event: the sensor after the call; fired holds the payloads
\* passed to hass.bus.async_fire, in order.
MaybeFireEvent(self, data) ==
  LET quiet == [self EXCEPT !.fired = <<>>]
  IN  IF IsNone(self.incident_bus_name) THEN quiet
      ELSE IF IsNone(data) THEN quiet
      ELSE
      LET cur == CurrentSignatures(SensorFilteredEvents(self, data))
          prev == self.last_incident_signatures
          added_or_changed ==
            SelectSeq(cur, LAMBDA it : SignatureOf(prev, it.key) # Some(it.sig))
          capped == SubSeq(added_or_changed, 1, Min2(FireCap, Len(added_or_changed)))
      IN  IF ~self.diff_initialized
          THEN [quiet EXCEPT !.diff_initialized = TRUE,
                             !.last_incident_signatures = cur]
          ELSE [self EXCEPT
                  !.last_incident_signatures = cur,
                  !.fired =
                    [i \in 1..Len(capped) |->
                       [event_type |-> Val(self.incident_bus_name),
                        message_type |-> self.message_type,
                        incident_key |-> capped[i].key,
                        change_type |->
                          IF IsNone(SignatureOf(prev, capped[i].key)) THEN "added"
                          ELSE "updated"]]]

(***************************************************************************)
(* One sensor over a sequence of coordinator updates                       *)
(***************************************************************************)

\* The most updates a sensor handles in a behaviour.
MaxUpdates == 3

\* A TrafikinfoEvent with the attributes the sensor reads.
Incident(deviation_id, situation_id, message_type, message_type_value, modified, message) ==
  [deviation_id |-> deviation_id, situation_id |-> situation_id,
   message_type |-> message_type, message_type_value |-> message_type_value,
   modified_time |-> modified, version_time |-> None,
   publication_time |-> Some([t |-> 2, aware |-> TRUE]), end_time |-> None,
   start_time |-> None, severity_code |-> Some(4), severity_text |-> None,
   header |-> None, message |-> message]

At(t) == Some([t |-> t, aware |-> TRUE])

\* An obstruction by its deviation id and the instant it was modified.
Hinder(n, t) ==
  Incident(Some(<<"d">> \o NatToStr(n)), Some(<<"s", "1">>), Some(W_hinder), None,
           At(t), Some(<<"m">>))

\* An accident known by its code value and its Situation only.
Olycka(t) ==
  Incident(None, Some(<<"s", "2">>), None, Some(W_accident), At(t), Some(<<"m">>))

\* An obstruction with no id: its key is the digest of header and message.
HinderNoId(message) == Incident(None, None, Some(W_hinder), None, None, message)

Vagarbete == Incident(Some(<<"d", "9">>), Some(<<"s", "3">>), Some(W_vagarbete), None, At(1), None)

\* One more obstruction than the sensor fires events for in one update.
ManyIncidents == [n \in 1..(FireCap + 1) |-> Hinder(n, 1)]

\* The event lists the coordinator publishes.
SensorLists ==
  {<<>>,
   <<Hinder(1, 1)>>, <<Hinder(1, 2)>>,
   <<Hinder(1, 1), Hinder(2, 1)>>, <<Hinder(2, 1), Hinder(1, 2), Olycka(1)>>,
   <<Olycka(1), Vagarbete>>, <<Olycka(2)>>,
   <<Hinder(1, 1), Hinder(1, 2)>>,
   <<HinderNoId(Some(<<"m">>)), HinderNoId(None)>>, <<HinderNoId(Some(<<"n">>))>>,
   ManyIncidents}

SensorInit ==
  /\ entry = EntryCoordinate
  /\ coord = Construct(entry)
  /\ pc = "Listening"
  /\ clock = 2
  /\ ticks = 0
  /\ tick \in {NewSensor(mt) : mt \in {W_hinder, W_olycka, W_vagarbete}}
  /\ result = None
  /\ bg_tasks = <<>>
  /\ icon_local_urls = NoIconUrls
  /\ files = EmptyCacheDir

\* A refresh succeeded: the coordinator sets data and calls its listeners;
\* _handle_coordinator_update of the sensor.
SensorUpdate(events) ==
  /\ pc = "Listening"
  /\ ticks < MaxUpdates
  /\ \E data \in {Some(TrafikinfoData(events, None, None, None))} :
       /\ result' = data
       /\ tick' = MaybeFireEvent(tick, data)
  /\ ticks' = ticks + 1
  /\ UNCHANGED <<entry, coord, pc, clock, bg_tasks, icon_local_urls, files>>

\* A refresh failed: data stays as it was and the listeners are called.
SensorUpdateFailed ==
  /\ pc = "Listening"
  /\ ticks < MaxUpdates
  /\ tick' = MaybeFireEvent(tick, result)
  /\ ticks' = ticks + 1
  /\ UNCHANGED <<entry, coord, pc, clock, result, bg_tasks, icon_local_urls, files>>

SensorNext ==
  \/ \E events \in SensorLists : SensorUpdate(events)
  \/ SensorUpdateFailed

SpecSensor == SensorInit /\ [][SensorNext]_vars

(***************************************************************************)
(* Properties of the update orchestrator (Spec)                            *)
(***************************************************************************)

\* An event passes the inclusion policy and the road filter of the
\* coordinator.
PassesBothStages(self, e) ==
  /\ IncludeEvent(self, e)
  /\ \/ \A i \in 1..Len(self.filter_roads) :
          NormalizeRoadFilterToken(self.filter_roads[i]) = <<>>
     \/ IsImportantWithoutGeo(e)
     \/ RoadFilterMatch(e, SelectSeq([i \in 1..Len(self.filter_roads) |->
                                        NormalizeRoadFilterToken(self.filter_roads[i])],
                                     LAMBDA t : t # <<>>))

\* The feed of one suspended, one expired and one active deviation was
\* parsed after the second one ended, with the active one inside the radius
\* of a coordinate filter that has no road filter.
ThreeDeviationCase ==
  /\ GivenBody = [sits |-> <<1>>, other |-> 0]
  /\ clock > 3
  /\ coord.filter_mode = "coordinate"
  /\ coord.filter_roads = <<>>
  /\ Abs(coord.latitude - 5) <= coord.radius_km

\* C1: the snapshot a successful tick returns holds exactly the events of
\* the parse result that pass the inclusion policy and the road filter, in
\* the order of the parse result, and the parse result's last_modified,
\* last_change_id and sse_url; the feed of one suspended, one expired and
\* one active in-radius deviation gives the one active event.
C1_SnapshotIsFilteredParse ==
  pc = "Ready" =>
    /\ ~Parsed.raised
    /\ Snapshot.events = SelectSeq(ParsedData.events, LAMBDA e : PassesBothStages(coord, e))
    /\ Snapshot.last_modified = ParsedData.last_modified
    /\ Snapshot.last_change_id = ParsedData.last_change_id
    /\ Snapshot.sse_url = ParsedData.sse_url
    /\ ThreeDeviationCase =>
         /\ Len(Snapshot.events) = 1
         /\ Snapshot.events[1].deviation_id = Some(<<"d", "1">>)

\* A second tick in which the filter stage drops some of the parsed events
\* and keeps others.
C1_FilterDropsSomeEvents ==
  /\ pc = "Ready"
  /\ ticks = 2
  /\ Len(ParsedData.events) >= 3
  /\ Len(Snapshot.events) >= 1
  /\ Len(Snapshot.events) < Len(ParsedData.events)

\* C4: however a tick fails, what leaves _async_update_data is UpdateFailed
\* with the message of the error it was raised from.
C4_EveryFailureIsUpdateFailed ==
  pc = "Failed" =>
    /\ Val(result).type = "UpdateFailed"
    /\ tick.parsed # None => Val(result).msg = Parsed.msg

\* C5: a tick of a coordinator whose API key is empty once stripped goes
\* from Idle to Failed with TrafikinfoAuthenticationError("Missing API key"):
\* no POST, no call of the parser, no background task, no snapshot.
C5_MissingKeyFailsAtOnce ==
  [][(pc = "Idle" /\ pc' # "Idle" /\ StrStrip(coord.api_key) = <<>>) =>
       /\ pc' = "Failed"
       /\ result' = Some(TickRaise("TrafikinfoAuthenticationError",
                                   <<"Missing API key">>, ""))
       /\ tick'.requests = 0
       /\ tick'.parse_calls = 0
       /\ tick'.spawned = 0
       /\ tick'.fetched = None
       /\ bg_tasks' = bg_tasks]_vars

\* A tick has failed without a POST, for an entry whose stored key is a
\* blank.
C5_BlankKeyTickFailed ==
  /\ pc = "Failed"
  /\ DataGet(entry, "api_key", <<>>) = <<" ">>
  /\ coord.api_key = <<>>
  /\ tick.requests = 0
  /\ Val(result).type = "TrafikinfoAuthenticationError"

LivePlaces(now) ==
  {pl \in (1..Len(GivenSituations)) \X (1..3) :
     LET sit == GivenSituations[pl[1]]
         devs == FindAll(sit, "Deviation")
     IN  /\ pl[2] <= Len(devs)
         /\ AsBool(FindText(sit, "Deleted")) # Some(TRUE)
         /\ AsBool(FindText(devs[pl[2]], "Suspended")) = Some(FALSE)
         /\ \/ IsNone(FindText(devs[pl[2]], "EndTime"))
            \/ /\ ~IsNone(AsDt(FindText(devs[pl[2]], "EndTime")))
               /\ Val(AsDt(FindText(devs[pl[2]], "EndTime"))).t >= now}

\* The situation and deviation id of a place.
PlaceIds(pl) ==
  <<Strip(FindText(GivenSituations[pl[1]], "Id")),
    Strip(FindText(FindAll(GivenSituations[pl[1]], "Deviation")[pl[2]], "Id"))>>

\* C2: of a feed document, no returned event is suspended, has ended
\* before the instant of the parse, or belongs to a deleted Situation, and
\* every Deviation that is not suspended, has not ended and is in no deleted
\* Situation has its one event in the returned list.
C2_OnlyAndAllLiveDeviations ==
  (tick.parsed # None /\ tick.fetched # None /\ GivenBody.other = 0) =>
    /\ \A k \in 1..Len(ParsedEvents) :
         /\ ParsedEvents[k].suspended # Some(TRUE)
         /\ \/ IsNone(ParsedEvents[k].end_time)
            \/ Val(ParsedEvents[k].end_time).t >= clock
         /\ \A i \in 1..Len(GivenSituations) :
              Strip(FindText(GivenSituations[i], "Id")) = ParsedEvents[k].situation_id
                => AsBool(FindText(GivenSituations[i], "Deleted")) # Some(TRUE)
    /\ \A pl \in LivePlaces(clock) :
         Cardinality({k \in 1..Len(ParsedEvents) :
                        <<ParsedEvents[k].situation_id, ParsedEvents[k].deviation_id>>
                          = PlaceIds(pl)})
           = Cardinality({p2 \in LivePlaces(clock) : PlaceIds(p2) = PlaceIds(pl)})

\* The texts of the non-empty MESSAGE children of the ERROR elements of the
\* response text at hand, the root among them.
ErrorMessages ==
  LET errors == HasTag(<<GivenDoc.root>> \o Desc(GivenDoc.root), "ERROR")
      messages == Flatten([i \in 1..Len(errors) |-> FindAll(errors[i], "MESSAGE")])
      given == SelectSeq(messages, LAMBDA m : Truthy(m.text))
  IN  [i \in 1..Len(given) |-> Val(given[i].text)]

\* C3: the parse of a well-formed text with an ERROR element (the root or
\* below it) that has a non-empty MESSAGE raises: the authentication error
\* when the message mentions "authentication" or "invalid key" in any case,
\* the API error else.
C3_ErrorPayloadAlwaysRaises ==
  (tick.parsed # None /\ tick.fetched # None /\ GivenDoc.wellformed
     /\ ErrorMessages # <<>>) =>
    /\ Parsed.raised
    /\ Parsed.type =
         IF \/ Contains(Lower(ErrorMessages[1]), W_authentication)
            \/ Contains(Lower(ErrorMessages[1]), W_invalid_key)
         THEN "TrafikinfoAuthenticationError"
         ELSE "TrafikinfoAPIError"

\* C7: the parse of a feed document (well-formed, no error payload) never
\* raises, whatever the texts of the fields of its Situations and
\* Deviations, timestamps with and without a UTC offset among them.
C7_FieldTextsNeverFailTheParse ==
  (tick.parsed # None /\ tick.fetched # None /\ GivenBody.other = 0) => ~Parsed.raised

\* The publication time an event is sorted by: the least instant when it
\* has none.
PubOrMin(e) == IF IsNone(e.publication_time) THEN DatetimeMin.t ELSE Val(e.publication_time).t

\* The order the specification words: a stands before b when b alone lacks
\* a publication time, else when a was published later, else when its
\* situation id is less, else when its deviation id is less.
WordedBefore(a, b) ==
  \/ ~IsNone(a.publication_time) /\ IsNone(b.publication_time)
  \/ /\ IsNone(a.publication_time) = IsNone(b.publication_time)
     /\ \/ PubOrMin(a) > PubOrMin(b)
        \/ /\ PubOrMin(a) = PubOrMin(b)
           /\ \/ StrLess(TextOf(a.situation_id), TextOf(b.situation_id))
              \/ /\ a.situation_id = b.situation_id
                 /\ StrLess(TextOf(a.deviation_id), TextOf(b.deviation_id))

\* C8 as worded: publication time descending, then situation id ascending,
\* then deviation id ascending, events without publication time last.
C8_AscendingIdsAndMissingLast ==
  (tick.parsed # None /\ ~Parsed.raised) =>
    \A i, j \in 1..Len(ParsedEvents) :
      i < j => ~WordedBefore(ParsedEvents[j], ParsedEvents[i])

\* The order of the sort: a stands before b when its publication time (the
\* least instant for none) is later, else when its situation id is greater,
\* else when its deviation id is greater (a missing id counts as "").
SortedBefore(a, b) ==
  \/ PubOrMin(a) > PubOrMin(b)
  \/ /\ PubOrMin(a) = PubOrMin(b)
     /\ \/ StrLess(TextOf(b.situation_id), TextOf(a.situation_id))
        \/ /\ TextOf(a.situation_id) = TextOf(b.situation_id)
           /\ StrLess(TextOf(b.deviation_id), TextOf(a.deviation_id))

\* C8: the returned list is in descending order of (publication time with
\* the least instant for a missing one, situation id, deviation id): no
\* event stands behind one it is sorted before.
C8_DescendingByTimeThenIds ==
  (tick.parsed # None /\ ~Parsed.raised) =>
    \A i, j \in 1..Len(ParsedEvents) :
      i < j => ~SortedBefore(ParsedEvents[j], ParsedEvents[i])

\* A returned list of two events of one Situation, the greater deviation id
\* first, and behind them an event without publication time.
C8_TieBrokenByGreaterId ==
  /\ tick.parsed # None
  /\ ~Parsed.raised
  /\ Len(ParsedEvents) = 3
  /\ ParsedEvents[1].situation_id = ParsedEvents[2].situation_id
  /\ ParsedEvents[1].publication_time = ParsedEvents[2].publication_time
  /\ StrLess(TextOf(ParsedEvents[2].deviation_id), TextOf(ParsedEvents[1].deviation_id))
  /\ IsNone(ParsedEvents[3].publication_time)

(***************************************************************************)
(* Properties of the inclusion policy (SpecFilter)                         *)
(***************************************************************************)

\* The filter stage has run in coordinate mode without a road filter.
CoordinateFiltered ==
  /\ pc \in {"Filtered", "Ready"}
  /\ coord.filter_mode = "coordinate"
  /\ coord.filter_roads = <<>>

\* C9: in coordinate mode an event with geometry is in the result iff one
\* of its first 200 points is at most max(0.1 km, radius_km) from the
\* centre (distances in tenths of a kilometre along the meridian).
C9_InRadiusIffNearPointAmongFirst200 ==
  CoordinateFiltered =>
    \A k \in 1..Len(ParsedEvents) :
      LET e == ParsedEvents[k]
          pts == WktPoints(e.geometry_wgs84)
          radius == IF coord.radius_km < 1 THEN 1 ELSE coord.radius_km
      IN  Truthy(e.geometry_wgs84) =>
            (InSeq(e, Snapshot.events)
               <=> \E i \in 1..Len(pts) :
                     /\ i <= 200
                     /\ pts[i][2] - coord.latitude <= radius
                     /\ coord.latitude - pts[i][2] <= radius)

\* With a radius of 0 an event whose one point is 0.1 km from the centre is
\* kept.
C9_FloorRadiusKeepsPointAtFloor ==
  /\ CoordinateFiltered
  /\ coord.radius_km = 0
  /\ Len(ParsedEvents) = 1
  /\ WktPoints(ParsedEvents[1].geometry_wgs84) = <<<<0, coord.latitude + 1>>>>
  /\ Snapshot.events = ParsedEvents

\* An event has no geometry and is safety-related.
SafetyWithoutGeometry(e) ==
  ~Truthy(e.geometry_wgs84) /\ e.safety_related_message = Some(TRUE)

\* C10 as worded: a safety-related event without geometry is in the result
\* in every mode, whatever its county codes and the configured ones.
C10_SafetyWithoutGeometryAlwaysKept ==
  pc \in {"Filtered", "Ready"} =>
    \A k \in 1..Len(ParsedEvents) :
      SafetyWithoutGeometry(ParsedEvents[k]) => InSeq(ParsedEvents[k], Snapshot.events)

\* C10: a safety-related event without geometry is in the result in
\* coordinate mode; in region mode it is in the result iff it has no county
\* code, the all-regions sentinel is configured or one of its county codes
\* is configured.
C10_SafetyWithoutGeometryKeptUnlessOtherCounty ==
  pc \in {"Filtered", "Ready"} =>
    \A k \in 1..Len(ParsedEvents) :
      LET e == ParsedEvents[k]
      IN  SafetyWithoutGeometry(e) =>
            IF coord.filter_mode = "county"
            THEN InSeq(e, Snapshot.events)
                   <=> \/ e.county_no = <<>>
                       \/ COUNTY_ALL \in coord.counties
                       \/ \E i \in 1..Len(e.county_no) :
                            IntToStr(e.county_no[i]) \in coord.counties
            ELSE InSeq(e, Snapshot.events)

\* In region mode a safety-related event without geometry and without a
\* county code is kept though only other regions are configured.
C10_SafetyWithoutCountyKeptInRegionMode ==
  /\ pc = "Filtered"
  /\ coord.filter_mode = "county"
  /\ COUNTY_ALL \notin coord.counties
  /\ Len(ParsedEvents) = 1
  /\ SafetyWithoutGeometry(ParsedEvents[1])
  /\ ParsedEvents[1].county_no = <<>>
  /\ Snapshot.events = ParsedEvents

(***************************************************************************)
(* C11: the region mode with no region code                                *)
(***************************************************************************)

\* The coordinator runs in the region mode on what an entry without any
\* region code gives it, by construction or by apply_options.
RegionModeWithoutCodes ==
  /\ FilterModeOf(entry) = "county"
  /\ GivenCounties(entry) = {}
  /\ coord.filter_mode = "county"
  /\ coord.counties = CountiesOf(entry, "county")
  /\ coord.filter_roads = FilterRoads(Opt(entry, "filter_roads", NoRoads))

\* C11 as worded: configured in the region mode with an empty set of region
\* codes, the inclusion policy includes no event, so the snapshot of every
\* tick has an empty event list.
C11_NoRegionCodeIncludesNothing ==
  (pc = "Ready" /\ RegionModeWithoutCodes) => Snapshot.events = <<>>

\* C11 amended: the region set of a coordinator in the region mode is never
\* empty; configured without any region code it is the Sweden-wide set, the
\* inclusion policy includes every event, and the snapshot of a tick holds
\* every event of the parse that the road filter keeps.
C11_NoRegionCodeIncludesEverything ==
  /\ coord.filter_mode = "county" => coord.counties # {}
  /\ (pc = "Ready" /\ RegionModeWithoutCodes) =>
       /\ coord.counties = {COUNTY_ALL}
       /\ \A i \in 1..Len(ParsedEvents) : IncludeEvent(coord, ParsedEvents[i])
       /\ Snapshot.events = ApplyRoadFilter(coord, ParsedEvents)

\* A tick of a coordinator that apply_options set to the region mode
\* without region codes returns events.
C11_NoRegionCodeTickKeepsEvents ==
  /\ pc = "Ready"
  /\ RegionModeWithoutCodes
  /\ entry = EntryCountyBlank
  /\ coord # Construct(entry)
  /\ Len(ParsedEvents) >= 2
  /\ Snapshot.events = ParsedEvents

(***************************************************************************)
(* C12: the road filter                                                    *)
(***************************************************************************)

\* The normalized road-filter tokens of the coordinator, the empty ones
\* left out.
RoadTokens ==
  {NormalizeRoadFilterToken(coord.filter_roads[i]) : i \in 1..Len(coord.filter_roads)}
    \ {<<>>}

\* The events of the parse that pass the inclusion policy, in order.
Included == SelectSeq(ParsedEvents, LAMBDA e : IncludeEvent(coord, e))

\* The lowercase text of road name, a space, and road number.
RoadText(e) == Lower(TextOf(e.road_name) \o <<" ">> \o TextOf(e.road_number))

KeptByRoads(e) ==
  \/ e.safety_related_message = Some(TRUE)
  \/ e.message_type = Some(W_viktig)
  \/ \E t \in RoadTokens : t = Lower(StrStrip(TextOf(e.road_number)))
  \/ \E t \in RoadTokens : Contains(RoadText(e), t)

DistanceOf(e) == EventDistanceKm(coord, e)

\* C13: in the nearest mode, for every two events of the input that both
\* have a resolvable distance, the one with the smaller distance comes
\* first whatever the publication times, and an event without resolvable
\* distance comes after every event that has one.
C13_NearerFirstUnresolvableLast ==
  (pc = "Sorted" /\ coord.sort_mode = "nearest") =>
    \A p, q \in 1..Len(SortOutput) :
      /\ ( /\ DistanceOf(SortOutput[p]) # None
           /\ DistanceOf(SortOutput[q]) # None
           /\ Val(DistanceOf(SortOutput[p])) < Val(DistanceOf(SortOutput[q])) ) => p < q
      /\ (DistanceOf(SortOutput[p]) # None /\ DistanceOf(SortOutput[q]) = None) => p < q

\* C14: in the relevance mode, which an unrecognised sort mode also gets, an
\* event that is important without geometry comes before every event that
\* is not; within each of the two groups an event with resolvable distance
\* comes before one without, a nearer one before a farther one, and at equal
\* distance a newer publication before an older one.
C14_ImportantThenNearestThenNewest ==
  (pc = "Sorted" /\ coord.sort_mode = "relevance") =>
    \A p, q \in 1..Len(SortOutput) :
      LET a == SortOutput[p]
          b == SortOutput[q]
      IN  /\ (IsImportantWithoutGeo(a) /\ ~IsImportantWithoutGeo(b)) => p < q
          /\ IsImportantWithoutGeo(a) = IsImportantWithoutGeo(b) =>
               /\ (DistanceOf(a) # None /\ DistanceOf(b) = None) => p < q
               /\ ( /\ DistanceOf(a) # None
                    /\ DistanceOf(b) # None
                    /\ Val(DistanceOf(a)) < Val(DistanceOf(b)) ) => p < q
               /\ ( /\ DistanceOf(a) = DistanceOf(b)
                    /\ a.publication_time # None
                    /\ b.publication_time # None
                    /\ Val(a.publication_time).t > Val(b.publication_time).t ) => p < q

\* The key of the newest mode has the least timestamp for an event without
\* publication time.
PubOrLeast(e) ==
  IF e.publication_time = None THEN DatetimeMin.t ELSE Val(e.publication_time).t

\* C15 as worded: in the newest mode, of two events with publication times
\* T1 < T2 the one of T2 comes first, and an event without publication time
\* comes after every event that has one.
C15_NewerFirstAndUndatedLast ==
  (pc = "Sorted" /\ coord.sort_mode = "newest") =>
    \A p, q \in 1..Len(SortOutput) :
      LET a == SortOutput[p]
          b == SortOutput[q]
      IN  /\ ( /\ a.publication_time # None
               /\ b.publication_time # None
               /\ Val(a.publication_time).t > Val(b.publication_time).t ) => p < q
          /\ (a.publication_time # None /\ b.publication_time = None) => p < q

\* C15 amended: in the newest mode, of two events with publication times
\* T1 < T2 the one of T2 comes first, and an event without publication time
\* comes after every event published later than the least timestamp; with
\* an event published at the least timestamp it ties, and the greater
\* situation id (then deviation id) comes first.
C15_NewerFirstAndUndatedAsLeast ==
  (pc = "Sorted" /\ coord.sort_mode = "newest") =>
    \A p, q \in 1..Len(SortOutput) :
      LET a == SortOutput[p]
          b == SortOutput[q]
      IN  /\ PubOrLeast(a) > PubOrLeast(b) => p < q
          /\ ( /\ PubOrLeast(a) = PubOrLeast(b)
               /\ StrLess(TextOf(b.situation_id), TextOf(a.situation_id)) ) => p < q
          /\ ( /\ PubOrLeast(a) = PubOrLeast(b)
               /\ a.situation_id = b.situation_id
               /\ StrLess(TextOf(b.deviation_id), TextOf(a.deviation_id)) ) => p < q

\* The newest mode moved an event without publication time from the front
\* of the list behind a dated one, and put it before the event published at
\* the least timestamp.
C15_UndatedBehindDatedBeforeLeast ==
  /\ pc = "Sorted"
  /\ coord.sort_mode = "newest"
  /\ Len(SortInput) = 3
  /\ SortInput[1].publication_time = None
  /\ SortOutput[2] = SortInput[1]
  /\ SortOutput[1].publication_time = Some([t |-> 3, aware |-> TRUE])
  /\ SortOutput[3].publication_time = Some(DatetimeMin)

\* The lists that hold the elements of q in the order of a permutation.
Reorderings(q) ==
  {[i \in 1..Len(q) |-> q[f[i]]] :
     f \in {g \in [1..Len(q) -> 1..Len(q)] : \A i, j \in 1..Len(q) : i # j => g[i] # g[j]}}

\* How often e occurs in q.
Occurrences(q, e) == Cardinality({i \in 1..Len(q) : q[i] = e})

\* C16: in each of the three modes sort_events is a deterministic total
\* ordering: it returns the same sequence for every permutation of its
\* input list, and that sequence is a permutation of the input.
C16_SameResultForEveryPermutation ==
  pc = "Sorted" =>
    /\ \A e \in SortPool : Occurrences(SortOutput, e) = Occurrences(SortInput, e)
    /\ \A q \in Reorderings(SortInput) : SortEvents(coord, q) = SortOutput

(***************************************************************************)
(* Properties of the icon cache (SpecIcons)                                *)
(***************************************************************************)

\* C19: the map from icon id to local reference is append-only under every
\* interleaving of background tasks and readers: once an icon id has a
\* local reference, no step removes the entry or changes it to another
\* value.
C19_LocalReferencesOnlyAdded ==
  [][\A id \in IconUniverse :
       icon_local_urls[id] # None => icon_local_urls'[id] = icon_local_urls[id]]_vars

\* The final paths of the cache directory under one extension.
FinalPathsOf(ext) == {SafeIconFilename(id, ext) : id \in IconUniverse}

\* A complete payload the code accepts for a file of the extension.
CompleteImage(content, ext) ==
  \E r \in IconResponses : r.content = content /\ AcceptedExt(r) = Some(ext)

\* C20: a file at a final cache path (.png or .svg) is never observable
\* with empty or partially written content under any interleaving of the
\* icon-cache writers, two tasks that write the same icon at the same time
\* included: no step leaves a final path with a content other than one
\* complete accepted payload.
C20_FinalPathsGetCompletePayloadsOnly ==
  [][\A ext \in {W_png, W_svg} : \A p \in FinalPathsOf(ext) :
       (files'[p] # files[p] /\ files'[p] # None) => CompleteImage(Val(files'[p]), ext)]_vars

\* What a step of a tick and a step of an icon task leave to each other.
TickAndTasksApart ==
  /\ (pc = "Fetching" /\ pc' = "Ready") =>
       LET snapshot == Val(Val(result').value)
           started == bg_tasks'[Len(bg_tasks')]
       IN  /\ snapshot.events = Filtered(coord, Val(Val(tick'.parsed).value).events)
           /\ Len(bg_tasks') = Len(bg_tasks) + 1
           /\ started.pos = "start"
           /\ started.queue = IconQueue(IconIds(snapshot.events))
           /\ \A k \in 1..Len(bg_tasks) : bg_tasks'[k] = bg_tasks[k]
           /\ UNCHANGED <<icon_local_urls, files>>
  /\ (pc = "Fetching" /\ pc' = "Failed") =>
       /\ UNCHANGED <<bg_tasks, icon_local_urls, files>>
       /\ Val(result').cause \in {"TimeoutError", "ClientError", "Exception",
                                  "TrafikinfoAuthenticationError", "TrafikinfoAPIError",
                                  "TrafikinfoParseError", ""}
  /\ (files' # files \/ icon_local_urls' # icon_local_urls
        \/ (bg_tasks' # bg_tasks /\ Len(bg_tasks') = Len(bg_tasks))) =>
       UNCHANGED <<pc, ticks, tick, result, clock>>

\* C17: icon caching never fails or delays a tick. The tick returns its
\* snapshot in the step that sets the background task up, before that task
\* has run; the snapshot is the filtered parse whatever the icon fetches do
\* (succeed, fail, time out, raise); no step of an icon task touches the
\* tick or its result; a failed tick has failed in the fetch or the parse;
\* the caller can take the result while icon tasks are unfinished.
C17_IconTasksNeverTouchTheTick ==
  /\ [](pc = "Ready" =>
          /\ Snapshot.events = Filtered(coord, ParsedEvents)
          /\ ENABLED TickDone)
  /\ [][TickAndTasksApart]_vars

\* The second tick has returned its snapshot while the task of the first
\* tick waits for its second GET and the task just set up has not run.
C17_SnapshotReturnedWhileTasksPending ==
  /\ pc = "Ready"
  /\ ticks = 2
  /\ Len(Snapshot.events) = 1
  /\ Len(bg_tasks) = 2
  /\ bg_tasks[1].pos = "get"
  /\ bg_tasks[1].url = 2
  /\ bg_tasks[2].pos = "start"

\* A response that carries a status-200 payload passing the PNG magic check
\* or the SVG sniff.
IsImageResponse(r) ==
  /\ r.kind = "response"
  /\ r.status = 200
  /\ LooksLikePng(r.content) \/ LooksLikeSvg(r.content)

\* A response whose payload is the image that its content type and its
\* first bytes make it out to be: an SVG, or a PNG not declared as SVG.
IsConsistentImageResponse(r) ==
  /\ r.kind = "response"
  /\ r.status = 200
  /\ \/ LooksLikeSvg(r.content)
     \/ LooksLikePng(r.content) /\ ~Contains(Lower(r.ctype), W_svg)

PassesCheck(content, ext) ==
  IF ext = W_png THEN LooksLikePng(content) ELSE LooksLikeSvg(content)

IconAtHand(k) == Head(bg_tasks[k].queue)

\* A step writes a cache file and records a reference only for a status-200
\* payload that passes the check of its extension.
OnlyImagesStored ==
  /\ \A ext \in {W_png, W_svg} : \A p \in FinalPathsOf(ext) :
       (files'[p] # files[p] /\ files'[p] # None) =>
         \E k \in 1..Len(bg_tasks) :
           /\ bg_tasks[k].pos \in {"write_opened", "write_filled"}
           /\ FinalOf(bg_tasks[k]) = p
           /\ bg_tasks[k].resp.status = 200
           /\ PassesCheck(bg_tasks[k].resp.content, ext)
  /\ \A k \in 1..Len(bg_tasks) :
       (bg_tasks[k].pos \notin {"start", "done", "written"} /\ bg_tasks'[k] # bg_tasks[k]) =>
         icon_local_urls'[IconAtHand(k)] = icon_local_urls[IconAtHand(k)]
  /\ \A k \in 1..Len(bg_tasks) :
       (bg_tasks[k].pos = "written" /\ bg_tasks'[k] # bg_tasks[k]) =>
         /\ bg_tasks[k].resp.status = 200
         /\ PassesCheck(bg_tasks[k].resp.content, bg_tasks[k].ext)
         /\ FileNonempty(files, FinalOf(bg_tasks[k]))
              => PassesCheck(Val(files[FinalOf(bg_tasks[k])]), bg_tasks[k].ext)
         /\ icon_local_urls'[IconAtHand(k)] =
              Some(LocalUrl(SafeIconFilename(IconAtHand(k), bg_tasks[k].ext)))

ConfiguredRegions == GivenCounties(entry)

\* The filter stage has run in region mode, with no road filter.
RegionFilterHasRun ==
  /\ pc = "Filtered"
  /\ coord.filter_mode = "county"
  /\ coord.filter_roads = <<>>

\* C23: in region mode, with the all-regions sentinel configured every
\* event is included; with a non-empty configured set without it, an event
\* with county codes is included iff one of its codes is configured, and an
\* event without county codes iff it is important without geometry.
C23_RegionSetIncludesByCodeOrImportance ==
  RegionFilterHasRun /\ ConfiguredRegions # {} =>
    \A k \in 1..Len(ParsedEvents) :
      LET e == ParsedEvents[k]
          included == InSeq(e, Snapshot.events)
      IN  IF COUNTY_ALL \in ConfiguredRegions THEN included
          ELSE IF e.county_no # <<>>
          THEN included <=> \E i \in 1..Len(e.county_no) :
                              IntToStr(e.county_no[i]) \in ConfiguredRegions
          ELSE included <=> (\/ e.safety_related_message = Some(TRUE)
                             \/ e.message_type = Some(W_viktig))

\* With region 1 alone configured, an event of the regions 5 and 1 that is
\* not safety-related is included by its second code.
C23_IncludedBySecondCountyCode ==
  /\ RegionFilterHasRun
  /\ ConfiguredRegions = {<<"1">>}
  /\ Len(ParsedEvents) = 1
  /\ ParsedEvents[1].county_no = <<5, 1>>
  /\ ParsedEvents[1].safety_related_message = Some(FALSE)
  /\ Snapshot.events = ParsedEvents

(***************************************************************************)
(* Order of the steps of a tick (Spec)                                     *)
(***************************************************************************)

\* What the state shows of the tick at hand: one request at most, the parser
\* called only on the answer of the request and only when that was a 200,
\* a snapshot only with a parse result that is no failure, and then the
\* whole filtered list of it; a failed tick has no value at all.
TickInOrder ==
  /\ tick.requests <= 1
  /\ tick.parse_calls <= tick.requests
  /\ tick.parsed # None <=> tick.parse_calls = 1
  /\ tick.parsed # None =>
       /\ tick.fetched # None
       /\ Val(tick.fetched).kind = "response"
       /\ Val(tick.fetched).status = 200
  /\ pc \in {"Idle", "Fetching"} => result = None /\ tick.fetched = None
  /\ pc = "Ready" =>
       /\ result # None /\ ~Val(result).raised
       /\ tick.requests = 1 /\ tick.parsed # None /\ ~Parsed.raised
       /\ Snapshot.events = Filtered(coord, ParsedData.events)
  /\ pc = "Failed" =>
       /\ result # None /\ Val(result).raised /\ Val(result).value = None
       /\ tick.spawned = 0
       /\ tick.parsed # None => Parsed.raised

\* A tick that waits for its answer ends at its next step, in Ready or in
\* Failed, without a further request; one that has ended only starts anew.
TickEndsOnce ==
  /\ pc = "Fetching" /\ tick' # tick => pc' \in {"Ready", "Failed"} /\ tick'.requests = 1
  /\ pc \in {"Ready", "Failed"} /\ pc' # pc => pc' = "Idle"
  /\ pc = "Idle" /\ pc' # pc => pc' \in {"Fetching", "Failed"}

\* C22: within a tick the request comes before the parse and the parse
\* before the filter, and a snapshot is returned only after all three: a
\* tick ends in exactly one of Ready (the complete filtered snapshot) and
\* Failed (no snapshot), a failed request or parse leaves no event list, and
\* a tick issues one feed request at most, a timeout or failure is not
\* retried inside it.
C22_FetchParseFilterThenSnapshotOneRequest ==
  []TickInOrder /\ [][TickEndsOnce]_vars

\* A tick whose request timed out has failed after its one request.
C22_TimedOutTickFailedAfterOneRequest ==
  /\ pc = "Failed"
  /\ tick.requests = 1
  /\ tick.fetched # None /\ Val(tick.fetched).kind = "timeout"
  /\ tick.parsed = None
  /\ Val(result).raised /\ Val(result).value = None

(***************************************************************************)
(* Properties of one background icon task (SpecCache)                      *)
(***************************************************************************)

IsCategoryIcon(id) == \E i \in 1..Len(CategoryIcons) : CategoryIcons[i] = id

\* The ids among the first n distinct values of the list.
FirstDistinct(ids, n) ==
  {ids[i] : i \in {j \in 1..Len(ids) : Cardinality({ids[m] : m \in 1..j}) <= n}}

\* The calls of _ensure_icon_cached the task has made are for icons among
\* the first 50 distinct ids of its list or for category icons, and none
\* for an event icon twice.
CallsOnceAndWithinCap ==
  LET seen == bg_tasks[1].seen
  IN  /\ \A i \in 1..Len(seen) :
           seen[i] \in FirstDistinct(CacheInput, IconCap) \/ IsCategoryIcon(seen[i])
      /\ \A i \in 1..Len(seen) :
           Occurrences(seen, seen[i]) <= IF IsCategoryIcon(seen[i]) THEN 2 ELSE 1

\* C21: one run of the background icon caching calls _ensure_icon_cached
\* for each distinct event icon at most once and for none beyond the first
\* 50 distinct ids of its list, and when it has ended it has called it for
\* each of the four category icons, whatever the list was and whatever the
\* event icons met.
C21_EventIconsOnceWithinCapAndCategoriesAlways ==
  /\ CallsOnceAndWithinCap
  /\ bg_tasks[1].pos = "done" =>
       \A i \in 1..Len(CategoryIcons) : Occurrences(bg_tasks[1].seen, CategoryIcons[i]) >= 1

(***************************************************************************)
(* The memoized distances of one sort_events call (SpecSort)               *)
(***************************************************************************)

\* C27: in one sort_events call of the nearest or the relevance mode, the
\* memoized distance that goes into the sort key of an event is the
\* event_distance_km of that event, for every event of the list, lists
\* with two events of one (situation_id, deviation_id) pair or without
\* both ids included.
C27_MemoizedDistanceIsOwnDistance ==
  (pc = "Sorted" /\ coord.sort_mode \in {"nearest", "relevance"}) =>
    \A i \in 1..Len(SortInput) :
      /\ Dist(coord, SortInput, i) = DistanceOf(SortInput[i])
      /\ KNearest(coord, SortInput, i)[2] =
           IF DistanceOf(SortInput[i]) = None THEN DistInf
           ELSE Val(DistanceOf(SortInput[i]))

(***************************************************************************)
(* What _ensure_icon_cached does for an icon that is resolved, cached or   *)
(* left as an empty file (SpecIcons)                                       *)
(***************************************************************************)

\* The path the local reference url names, if it names a final cache path.
ReferencedPath(url) == CHOOSE p \in DOMAIN files : LocalUrl(p) = url

\* Task k takes up an icon in this step: its coroutine enters
\* _ensure_icon_cached for it and stops at an unlink or at the first GET.
TakesUp(k) ==
  /\ k \in 1..Len(bg_tasks)
  /\ bg_tasks'[k].pos \in {"unlink_png", "unlink_svg", "get"}
  /\ bg_tasks[k].pos = "start" \/ bg_tasks'[k].queue # bg_tasks[k].queue

\* An icon is taken up for unlinking or download only when it has no
\* reference and no non-empty cache file.
NoRequestForResolvedOrCached ==
  \A k \in 1..Len(bg_tasks) :
    TakesUp(k) =>
      LET id == Head(bg_tasks'[k].queue)
      IN  /\ icon_local_urls[id] = None
          /\ ~FileNonempty(files, SafeIconFilename(id, W_png))
          /\ ~FileNonempty(files, SafeIconFilename(id, W_svg))

\* A reference recorded in a step that writes no file and follows no write
\* names the non-empty PNG of the icon, or its non-empty SVG when it has no
\* non-empty PNG.
CachedFileOnlyRecorded ==
  \A k \in 1..Len(bg_tasks) : \A id \in DOMAIN icon_local_urls :
    (/\ bg_tasks'[k] # bg_tasks[k]
     /\ bg_tasks[k].pos # "written"
     /\ icon_local_urls'[id] # icon_local_urls[id]) =>
      /\ files' = files
      /\ IF FileNonempty(files, SafeIconFilename(id, W_png))
         THEN icon_local_urls'[id] = Some(LocalUrl(SafeIconFilename(id, W_png)))
         ELSE /\ FileNonempty(files, SafeIconFilename(id, W_svg))
              /\ icon_local_urls'[id] = Some(LocalUrl(SafeIconFilename(id, W_svg)))

\* When the first GET for an icon is issued, no empty file lies at its
\* final paths.
EmptyFileGoneBeforeDownload ==
  \A k \in 1..Len(bg_tasks) :
    (bg_tasks'[k].pos = "get" /\ bg_tasks'[k].url = 1 /\ bg_tasks'[k] # bg_tasks[k]) =>
      LET id == Head(bg_tasks'[k].queue)
      IN  /\ files[SafeIconFilename(id, W_png)] # Some(<<>>)
          /\ files[SafeIconFilename(id, W_svg)] # Some(<<>>)

\* A reference is never recorded for a path at which an empty file lies.
EmptyFileNeverRecorded ==
  \A id \in DOMAIN icon_local_urls :
    (icon_local_urls'[id] # None /\ icon_local_urls'[id] # icon_local_urls[id]) =>
      files'[ReferencedPath(Val(icon_local_urls'[id]))] # Some(<<>>)

\* C24: _ensure_icon_cached issues no request and writes no file for an
\* icon that is in the icon map or has a non-empty cache file, of which it
\* only records the reference, the PNG before the SVG; an empty file at a
\* final path is deleted before a download is attempted and is never
\* recorded as a local reference.
C24_NoRequestWhenResolvedAndEmptyFilesDeleted ==
  [][/\ NoRequestForResolvedOrCached
     /\ CachedFileOnlyRecorded
     /\ EmptyFileGoneBeforeDownload
     /\ EmptyFileNeverRecorded]_vars

(***************************************************************************)
(* Properties of the configuration (SpecConfig)                            *)
(***************************************************************************)

\* The sort reference point of the coordinator.
SortPoint == <<coord.sort_latitude, coord.sort_longitude>>

HomePoint == <<HomeLatitude, HomeLongitude>>

\* The filter centre the entry configures, the home location by default.
ConfiguredCentre ==
  <<Opt(entry, "latitude", HomeLatitude), Opt(entry, "longitude", HomeLongitude)>>

\* The filter mode the entry stands for.
ConfiguredMode ==
  IF Opt(entry, "filter_mode", DEFAULT_FILTER_MODE) = "coordinate"
  THEN "coordinate" ELSE "county"

\* The sort reference point is what the entry stands for: the filter centre
\* in coordinate mode; in region mode a configured sort location with both
\* coordinates, the home location when none is configured or the stored
\* value is unusable, and for a location that lacks a coordinate the home
\* value in its place.
SortPointFollowsEntry ==
  LET loc == Opt(entry, "sort_location", NoSortLocation)
  IN  /\ coord.filter_mode = ConfiguredMode
      /\ IF ConfiguredMode = "coordinate"
         THEN SortPoint = ConfiguredCentre /\ SortPoint = <<coord.latitude, coord.longitude>>
         ELSE IF loc.type # "dict" THEN SortPoint = HomePoint
         ELSE IF \/ loc.latitude # None /\ ~Val(loc.latitude).ok
                 \/ loc.longitude # None /\ ~Val(loc.longitude).ok
         THEN SortPoint = HomePoint
         ELSE SortPoint = <<IF loc.latitude # None THEN Val(loc.latitude).v
                            ELSE HomeLatitude,
                            IF loc.longitude # None THEN Val(loc.longitude).v
                            ELSE HomeLongitude>>

\* C25: after construction and after every apply_options that follows a
\* change of the entry, the sort reference point is the filter centre in
\* coordinate mode, and in region mode the configured sort location or,
\* without one, the home location; nothing of an earlier configuration
\* stays in it.
C25_SortReferenceRecomputedFromEntry ==
  SortPointFollowsEntry /\ [][ApplyOptions => SortPointFollowsEntry']_vars

\* A coordinator built for the entry with the other API key, which has no
\* sort location, has applied an entry of the region mode with a sort
\* location and a filter centre of its own: the reference point is the
\* sort location, neither the home location nor the filter centre.
C25_ReferenceTakenFromAppliedEntry ==
  /\ coord.api_key = ApiKeyOf(EntryOtherKey)
  /\ coord.api_key # ApiKeyOf(entry)
  /\ coord.filter_mode = "county"
  /\ Opt(entry, "sort_location", NoSortLocation).type = "dict"
  /\ <<coord.latitude, coord.longitude>> = <<6, 6>>
  /\ ConfiguredCentre = <<6, 6>>
  /\ SortPoint = <<8, 3>>

\* C26: whatever the entry stores, after construction and after every
\* apply_options the poll interval of the coordinator is one minute at
\* least, its filter mode is coordinate or region, and its sort mode is
\* one of relevance, nearest and newest.
C26_IntervalAndModesWithinRange ==
  /\ coord.update_interval >= 1
  /\ coord.filter_mode \in {"coordinate", "county"}
  /\ coord.sort_mode \in {"relevance", "nearest", "newest"}

\* The coordinator built for the entry with the other API key has applied
\* an entry that stores the mode "sweden", an unknown sort mode and an
\* interval below zero: it polls every minute in region mode by relevance.
C26_LegacyValuesAppliedWithinRange ==
  /\ coord.api_key = ApiKeyOf(EntryOtherKey)
  /\ entry.options.filter_mode = Some("sweden")
  /\ entry.options.sort_mode = Some("closest")
  /\ entry.options.scan_interval = Some(0 - 5)
  /\ coord.update_interval = 1
  /\ coord.filter_mode = "county"
  /\ coord.sort_mode = "relevance"

(***************************************************************************)
(* Progress of the icon cache over ticks that all succeed (SpecManyIcons)  *)
(***************************************************************************)

\* The icon identifiers the feed carries in every tick.
FeedIcons == {CacheIcon(n) : n \in 1..(IconCap + 2)}

KeyedIncidents(data, category) ==
  IF IsNone(data) THEN <<>>
  ELSE SelectSeq(Val(data).events,
                 LAMBDA e : CategoryForEvent(e) = Some(category) /\ Truthy(IncidentKey(e)))

\* The incident keys of a category in a snapshot.
IncidentKeys(data, category) ==
  LET es == KeyedIncidents(data, category)
  IN  {Val(IncidentKey(es[i])) : i \in 1..Len(es)}

\* The signature a snapshot gives an incident key: that of the last event
\* that bears the key.
KeySignature(data, category, k) ==
  LET es == KeyedIncidents(data, category)
      at == {i \in 1..Len(es) : Val(IncidentKey(es[i])) = k}
  IN  IncidentSignature(es[CHOOSE i \in at : \A j \in at : j <= i])

\* The incident events an update from snapshot old to snapshot new calls for.
IncidentChanges(old, new, category) ==
  {[incident_key |-> k, change_type |-> "added"] :
     k \in IncidentKeys(new, category) \ IncidentKeys(old, category)}
    \cup
  {[incident_key |-> k, change_type |-> "updated"] :
     k \in {x \in IncidentKeys(new, category) \cap IncidentKeys(old, category) :
              KeySignature(new, category, x) # KeySignature(old, category, x)}}

\* What the sensor fired at the latest update, as key and change type.
FiredChanges(sensor) ==
  {[incident_key |-> sensor.fired[i].incident_key,
    change_type |-> sensor.fired[i].change_type] : i \in 1..Len(sensor.fired)}

\* An update of a sensor fires what the change of the snapshot calls for.
FiresTheChanges ==
  ticks' = ticks + 1 =>
    IF \/ tick.message_type \notin EVENT_PUBLISH_TYPES
       \/ IsNone(result')
       \/ IsNone(result)
    THEN tick'.fired = <<>>
    ELSE /\ FiredChanges(tick') = IncidentChanges(result, result', tick.message_type)
         /\ Len(tick'.fired) =
              Cardinality(IncidentChanges(result, result', tick.message_type))

\* C29: a Hinder or Olycka sensor fires no incident event at the first
\* update that carries data, and at every later update exactly one event
\* for each incident key of its category that the previous update did not
\* have ("added") or had with another signature ("updated") and none for
\* the other keys; a sensor of another category never fires one.
C29_OneIncidentEventPerAddedOrChangedKey == [][FiresTheChanges]_vars

(***************************************************************************)
(* Whose image a local reference leads to (SpecNames)                      *)
(***************************************************************************)

\* The file a local reference names.
ReferencedFile(url) ==
  CHOOSE p \in DOMAIN files : url = LocalUrl(p)

\* C30: the icon cache never resolves an icon id to a file written for
\* another id: the local reference recorded for an id names a file whose
\* content is an image downloaded for that id, for distinct ids cached in
\* any order.
C30_ReferenceLeadsToOwnImage ==
  \A icon_id \in DOMAIN icon_local_urls :
    icon_local_urls[icon_id] # None =>
      /\ \E p \in DOMAIN files : Val(icon_local_urls[icon_id]) = LocalUrl(p)
      /\ files[ReferencedFile(Val(icon_local_urls[icon_id]))]
           \in {Some(PngOf(icon_id)), Some(SvgOf(icon_id))}

====
